---- MODULE Spec2Model ----
(***************************************************************************)
(* Model of the email-flow-automator scheduling server                     *)
(* (src/src/server/server.js): the POST /api/schedule-sequence handler,    *)
(* its immediate and deferred branches, and the scheduler / connection     *)
(* state it reads and writes (Spec); the job monitor's sweep (SweepSpec)   *)
(* and its registration at start-up (LifeSpec); connectToDatabase under    *)
(* concurrent calls (ConnSpec); POST /api/schedule-email behind            *)
(* authenticateJWT (EmailSpec); the 'send email' job handler (SendSpec);   *)
(* initializeAgenda under concurrent calls (AgendaSpec, OverlapSpec); the  *)
(* routes' handling of the scheduler's connection (ServingSpec); and       *)
(* registerUser of src/src/server/users.js (RegSpec).                      *)
(*                                                                         *)
(* Time is an integer number of seconds since 1970-01-01T00:00:00; the     *)
(* server's local zone is taken to be UTC (no daylight-saving shifts), so  *)
(* the local-time Date setters are plain arithmetic on that number.        *)
(* Text that the code parses or normalises (HH:MM strings, weekday names)  *)
(* is a sequence of one-character strings, so that parsing and             *)
(* lower-casing are computed and not assumed.                              *)
(***************************************************************************)
EXTENDS Integers, Sequences, FiniteSets, TLC

(***************************************************************************)
(* Bounds of the model.                                                    *)
(***************************************************************************)
\* longest sequence of items in a request of the sequence family
MaxSeqLen == 2
\* seconds a slow await (database or scheduler round trip) takes
SlowAwait == 45
\* a request sees at most this many slow awaits
MaxSlowAwaits == 1

(***************************************************************************)
(* Program constants.                                                      *)
(***************************************************************************)
\* while (!foundValidDay && daysChecked < 14)
MaxDaysChecked == 14
\* sendTime.setMinutes(sendTime.getMinutes() + 1)
ImmediateDelayMinutes == 1
\* Math.floor(Math.random() * 60)
MinuteRange == 60

(***************************************************************************)
(* Date arithmetic (JavaScript Date in a zone without DST).                *)
(***************************************************************************)
SecPerMinute == 60 * 1
SecPerHour == 60 * SecPerMinute
SecPerDay == 24 * SecPerHour

\* number of the calendar day an instant lies in
DayIndex(t) == t \div SecPerDay

\* Date.prototype.getDay: 0 = Sunday .. 6 = Saturday (1970-01-01 was a Thursday)
getDay(t) == (DayIndex(t) + 4) % 7

\* Date.prototype.getHours / getMinutes / getSeconds
getHours(t) == (t % SecPerDay) \div SecPerHour
getMinutes(t) == (t % SecPerHour) \div SecPerMinute
getSeconds(t) == t % SecPerMinute

\* date.setHours(h, m, s, 0): same calendar day, time of day replaced; values
\* outside 0..23 / 0..59 roll over into the neighbouring days as in JavaScript
setHours(t, h, m, s) == DayIndex(t) * SecPerDay + h * SecPerHour + m * SecPerMinute + s

\* date.setDate(date.getDate() + n)
addDays(t, n) == t + n * SecPerDay

\* date.setMinutes(date.getMinutes() + n)
addMinutes(t, n) == t + n * SecPerMinute

(***************************************************************************)
(* Text: strings as sequences of characters.                               *)
(***************************************************************************)
DigitChars == <<"0", "1", "2", "3", "4", "5", "6", "7", "8", "9">>
UpperChars == <<"A", "B", "C", "D", "E", "F", "G", "H", "I", "J", "K", "L", "M",
                "N", "O", "P", "Q", "R", "S", "T", "U", "V", "W", "X", "Y", "Z">>
LowerChars == <<"a", "b", "c", "d", "e", "f", "g", "h", "i", "j", "k", "l", "m",
                "n", "o", "p", "q", "r", "s", "t", "u", "v", "w", "x", "y", "z">>

\* String.prototype.toLowerCase
toLowerChar(c) ==
    IF \E i \in 1..Len(UpperChars) : UpperChars[i] = c
    THEN LowerChars[CHOOSE i \in 1..Len(UpperChars) : UpperChars[i] = c]
    ELSE c
toLowerCase(s) == [i \in 1..Len(s) |-> toLowerChar(s[i])]

\* str.split(':')[0]: the text before the first colon
splitFirst(s) ==
    LET colons == {i \in 1..Len(s) : s[i] = ":"}
        stop == IF colons = {} THEN Len(s) + 1
                ELSE CHOOSE i \in colons : \A j \in colons : i <= j
    IN SubSeq(s, 1, stop - 1)

\* Number(str) for a string of decimal digits
RECURSIVE Number(_)
Number(s) ==
    IF s = <<>> THEN 0
    ELSE LET d == CHOOSE k \in 1..Len(DigitChars) : DigitChars[k] = s[Len(s)]
         IN Number(SubSeq(s, 1, Len(s) - 1)) * 10 + (d - 1)

\* const [fromHour] = options.fromTime.split(':').map(Number)
parseHour(timeString) == Number(splitFirst(timeString))

\* the "HH:00" strings of the schedule page's hour dropdown
HourString(h) == <<DigitChars[(h \div 10) + 1], DigitChars[(h % 10) + 1], ":", "0", "0">>

(***************************************************************************)
(* Weekday names.                                                          *)
(***************************************************************************)
sunday == <<"s", "u", "n", "d", "a", "y">>
monday == <<"m", "o", "n", "d", "a", "y">>
tuesday == <<"t", "u", "e", "s", "d", "a", "y">>
wednesday == <<"w", "e", "d", "n", "e", "s", "d", "a", "y">>
thursday == <<"t", "h", "u", "r", "s", "d", "a", "y">>
friday == <<"f", "r", "i", "d", "a", "y">>
saturday == <<"s", "a", "t", "u", "r", "d", "a", "y">>
WeekdayNames == <<sunday, monday, tuesday, wednesday, thursday, friday, saturday>>

\* the value of a missing property
undefined == 0 - 1

\* a day map that numbers the week from 1
dayMapOneBased(name) ==
    IF \E i \in 1..7 : WeekdayNames[i] = name
    THEN CHOOSE i \in 1..7 : WeekdayNames[i] = name
    ELSE undefined

\* dayMap[name]: 0 = Sunday .. 6 = Saturday, undefined for any other key
dayMap(name) ==
    IF \E i \in 1..7 : WeekdayNames[i] = name
    THEN (CHOOSE i \in 1..7 : WeekdayNames[i] = name) - 1
    ELSE undefined

\* a mapping that looks the names up as they were sent
scheduleDaysOfAsSent(days) == [i \in 1..Len(days) |-> dayMap(days[i])]

\* options.days.map(day => dayMap[day.toLowerCase()])
scheduleDaysOf(days) == [i \in 1..Len(days) |-> dayMap(toLowerCase(days[i]))]

\* Array.prototype.includes
includes(arr, v) == \E i \in 1..Len(arr) : arr[i] = v

(***************************************************************************)
(* Math.random().                                                          *)
(***************************************************************************)
\* the modelled values of Math.random(): the fractions num / den, and the
\* largest double below 1 (max = TRUE)
Fraction(num, den) == [num |-> num, den |-> den, max |-> FALSE]
LargestBelowOne == [num |-> 1, den |-> 1, max |-> TRUE]
\* the draws of the hour: 0, 1/2 and the largest value
HourDraws == {Fraction(0, 1), Fraction(1, 2), LargestBelowOne}
\* the draws of the minute: 0 and the largest value
MinuteDraws == {Fraction(0, 1), LargestBelowOne}

\* Math.floor(r * n) for an integer n (n may be zero or negative)
floorTimes(r, n) ==
    IF r.max THEN (IF n > 0 THEN n - 1 ELSE n)
    ELSE (r.num * n) \div r.den

\* Math.floor(Math.random() * (toHour - fromHour + 1)) + fromHour
randomHourOf(r, fromHour, toHour) == floorTimes(r, toHour - fromHour + 1) + fromHour

\* Math.floor(Math.random() * 60)
randomMinuteOf(r) == floorTimes(r, MinuteRange)

(***************************************************************************)
(* Requests.                                                               *)
(***************************************************************************)
\* hours offered by the schedule page: Array.from({ length: 24 })
HoursPerDay == 24
Hours == 0..(HoursPerDay - 1)

\* the wall clock when the request arrives: Monday 1970-01-05 09:59:30
Now0 == 4 * SecPerDay + 9 * SecPerHour + 59 * SecPerMinute + 30

\* start dates a caller sends: today's midnight, the page-load time a little
\* before the request, tomorrow (a Tuesday) at 08:30:15, a day last week
StartToday == 4 * SecPerDay
StartPageLoad == Now0 - 20
StartTuesday == 5 * SecPerDay + 8 * SecPerHour + 30 * SecPerMinute + 15
StartLastWeek == 0 * SecPerDay + 12 * SecPerHour
\* tomorrow at midnight: the first instant of the next calendar day
StartTomorrow == 5 * SecPerDay

\* a value is falsy in JavaScript: the empty string (getNodeDefaultData gives
\* a new coldEmail node recipient '')
falsy(v) == v = ""

ColdWithRecipient == [type |-> "coldEmail", recipient |-> "lead@example.com"]
ColdNoRecipient == [type |-> "coldEmail", recipient |-> ""]
WaitDelayItem == [type |-> "waitDelay", recipient |-> ""]
ItemKinds == {ColdWithRecipient, ColdNoRecipient, WaitDelayItem}

\* the other nodes of a flow as the flow page sends them: a lead source, and
\* a wait with its delay and unit
LeadSourceItem == [type |-> "leadSource", recipient |-> ""]
WaitDelayOf(delay, unit) ==
    [type |-> "waitDelay", recipient |-> "", delay |-> delay, unit |-> unit]
OtherItems == {LeadSourceItem} \cup {WaitDelayOf(d, u) : d \in {1, 2}, u \in {"hours", "days"}}

SeqsUpTo(S, n) == UNION {[1..k -> S] : k \in 0..n}

\* the names of a set of weekday numbers, in week order
RECURSIVE NamesOf(_, _)
NamesOf(set, from) ==
    IF from > 6 THEN <<>>
    ELSE (IF from \in set THEN <<WeekdayNames[from + 1]>> ELSE <<>>) \o NamesOf(set, from + 1)

MondayCapital == <<"M", "o", "n", "d", "a", "y">>
FridayUpper == <<"F", "R", "I", "D", "A", "Y">>
funday == <<"f", "u", "n", "d", "a", "y">>

\* days lists: every subset of the week, and lists with mixed-case and
\* unknown names
DaysLists ==
    {NamesOf(set, 0) : set \in SUBSET (0..6)}
        \cup {<<MondayCapital, FridayUpper>>, <<funday>>, <<funday, tuesday>>}

\* schedulingOptions is a record holding any subset of the four keys; a
\* request without schedulingOptions carries the empty record
NoOptions == <<>>
OptionsRecord(startDate, fromTime, toTime, days) ==
    [startDate |-> startDate, fromTime |-> fromTime, toTime |-> toTime, days |-> days]

\* requests that vary the sequence, in both modes, without schedulingOptions
SequenceFamily ==
    {[sequence |-> s, schedulingOptions |-> NoOptions, sendNow |-> n] :
        s \in SeqsUpTo(ItemKinds, MaxSeqLen), n \in BOOLEAN}

\* three coldEmail items, days = [monday], a start date on a Tuesday,
\* fromTime = toTime = "09:00"
MondayScenario ==
    [sequence |-> <<ColdWithRecipient, ColdWithRecipient, ColdWithRecipient>>,
     schedulingOptions |-> OptionsRecord(StartTuesday, HourString(9), HourString(9),
                                         <<monday>>),
     sendNow |-> FALSE]

\* requests that vary the days list and the start date
DaysFamily ==
    {[sequence |-> <<ColdWithRecipient, ColdWithRecipient>>,
      schedulingOptions |-> OptionsRecord(sd, HourString(10), HourString(10), d),
      sendNow |-> FALSE] :
        sd \in {StartToday, StartPageLoad, StartLastWeek}, d \in DaysLists}

\* requests that vary the time window
HoursFamily ==
    {[sequence |-> <<ColdWithRecipient>>,
      schedulingOptions |-> OptionsRecord(StartTuesday, HourString(f), HourString(t),
                                          NamesOf(0..6, 0)),
      sendNow |-> FALSE] :
        f \in Hours, t \in Hours}

\* requests with a node that is not an email before or between two emails
WaitFamily ==
    {[sequence |-> seq, schedulingOptions |-> NoOptions, sendNow |-> n] :
        seq \in {<<x, ColdWithRecipient>> : x \in OtherItems}
                 \cup {<<ColdWithRecipient, x, ColdWithRecipient>> : x \in OtherItems},
        n \in BOOLEAN}

\* requests that start on a later calendar day: every non-empty set of
\* weekdays and a list in mixed case, the window at the day's first hour
FutureFamily ==
    {[sequence |-> <<ColdWithRecipient, ColdWithRecipient>>,
      schedulingOptions |-> OptionsRecord(sd, HourString(0), HourString(0), d),
      sendNow |-> FALSE] :
        sd \in {StartTomorrow, StartTuesday},
        d \in ({NamesOf(set, 0) : set \in SUBSET (0..6)} \ {<<>>})
                  \cup {<<MondayCapital, FridayUpper>>}}

Requests == SequenceFamily \cup {MondayScenario} \cup DaysFamily \cup HoursFamily
                \cup WaitFamily \cup FutureFamily

(***************************************************************************)
(* State.                                                                  *)
(***************************************************************************)
VARIABLES
    now,                  \* the wall clock
    mongoUri,             \* MONGODB_URI is set
    cachedClient,         \* "null" or "client"
    agenda,               \* "undefined" or "instance"
    agendaInitialized,    \* the initialized flag
    jobs,                 \* the emailJobs collection: jobs persisted, in order
    req,                  \* the request body
    reqTime,              \* the wall clock at the request's arrival
    slowAwaits,           \* slow awaits the request has seen
    pc,                   \* position of the handler
    idx,                  \* position of the for..of loop in the sequence
    hasValidEmails,       \* immediate mode flags
    hasMissingRecipients,
    options,              \* deferred mode: the options actually used
    currentDate,          \* deferred mode: the day cursor
    foundValidDay,        \* deferred mode: locals of the current item
    daysChecked,
    scheduledEmails,      \* the result list
    outcome,              \* what became of each item processed so far
    response              \* the HTTP response, status 0 while pending

\* the job-health monitor and the emailJobs documents it audits
VARIABLES
    store,                \* emailJobs documents by id, with their lockedAt lease
    monitorRegistered,    \* the setInterval of the monitor was registered
    lastSweep             \* the last sweep that reached the store (history)

monitorVars == <<store, monitorRegistered, lastSweep>>

\* the connection manager seen call by call
VARIABLES
    isVercelServerless,   \* process.env.VERCEL === '1'
    clients,              \* the MongoClient objects created: open or not, close() calls
    calls                 \* the connectToDatabase calls of the requests under way

connVars == <<isVercelServerless, clients, calls>>

\* mail: the credentials, the transporter, and one run of the 'send email' job
VARIABLES
    emailCreds,           \* EMAIL_USER and EMAIL_PASS are set
    transporter,          \* "null" or "transporter"
    emailSendTime,        \* schedule-email / scheduleEmail: the local sendTime
    sentMail,             \* messages handed to transporter.sendMail
    sendRuns              \* the runs of the 'send email' handler, by job

mailVars == <<emailCreds, transporter, emailSendTime, sentMail, sendRuns>>

\* the scheduler seen call by call
VARIABLES
    agendas,              \* the Agenda instances created: started (polling) or not
    inits                 \* the initializeAgenda calls under way

initVars == <<agendas, inits>>

\* registration
VARIABLES
    users,                \* the users collection: documents inserted, in order
    regs                  \* the POST /api/register requests under way

userVars == <<users, regs>>

vars == <<now, mongoUri, cachedClient, agenda, agendaInitialized, jobs, req, reqTime,
          slowAwaits, pc, idx, hasValidEmails, hasMissingRecipients, options,
          currentDate, foundValidDay, daysChecked, scheduledEmails, outcome, response,
          monitorVars, connVars, mailVars, initVars, userVars>>

\* no monitor in play: an empty store, no interval registered
MonitorIdle ==
    /\ store = <<>>
    /\ monitorRegistered = FALSE
    /\ lastSweep = <<>>

\* no connectToDatabase call followed step by step
ConnIdle ==
    /\ isVercelServerless = FALSE
    /\ clients = <<>>
    /\ calls = <<>>

\* no mail in play: credentials set, the transporter created at startup
MailIdle ==
    /\ emailCreds = TRUE
    /\ transporter = "transporter"
    /\ emailSendTime = 0
    /\ sentMail = <<>>
    /\ sendRuns = <<>>

\* no initializeAgenda call followed step by step, no registration
InitIdle ==
    /\ agendas = <<>>
    /\ inits = <<>>
    /\ users = <<>>
    /\ regs = <<>>

NoResponse == [status |-> 0, body |-> <<>>]

\* the scheduler and connection state after a startup that succeeded
ServerReady ==
    [mongoUri |-> TRUE, cachedClient |-> "client", agenda |-> "instance",
     agendaInitialized |-> TRUE]

\* the scheduler and connection state a request can find: after a startup
\* that succeeded, failed to connect, or failed in agenda.start(), and after
\* other routes dropped the cached connection
ServerStates ==
    {s \in [mongoUri : BOOLEAN, cachedClient : {"null", "client"},
            agenda : {"undefined", "instance"}, agendaInitialized : BOOLEAN] :
        /\ s.agendaInitialized => s.agenda = "instance"
        /\ ~s.mongoUri => (s.cachedClient = "null" /\ s.agenda = "undefined")}

Init ==
    /\ now = Now0
    /\ req \in Requests
    /\ \E s \in (IF req \in SequenceFamily THEN ServerStates ELSE {ServerReady}) :
        /\ mongoUri = s.mongoUri
        /\ cachedClient = s.cachedClient
        /\ agenda = s.agenda
        /\ agendaInitialized = s.agendaInitialized
    /\ jobs = <<>>
    /\ reqTime = Now0
    /\ slowAwaits = 0
    /\ pc = "guard"
    /\ idx = 1
    /\ hasValidEmails = FALSE
    /\ hasMissingRecipients = FALSE
    /\ options = <<>>
    /\ currentDate = 0
    /\ foundValidDay = FALSE
    /\ daysChecked = 0
    /\ scheduledEmails = <<>>
    /\ outcome = <<>>
    /\ response = NoResponse
    /\ MonitorIdle
    /\ ConnIdle
    /\ MailIdle
    /\ InitIdle

(***************************************************************************)
(* Connection manager and scheduler initialisation.                        *)
(***************************************************************************)
\* connectToDatabase(): the cache after the call and whether it threw.
\* pingOk: the liveness probe of the cached client answers within 2 s;
\* connectOk: client.connect() of a new client succeeds.
connectToDatabase(pingOk, connectOk) ==
    IF cachedClient = "client" /\ pingOk
    THEN [cachedClient |-> "client", threw |-> FALSE]
    ELSE IF mongoUri /\ connectOk
         THEN [cachedClient |-> "client", threw |-> FALSE]
         ELSE [cachedClient |-> "null", threw |-> TRUE]

\* initializeAgenda(): the scheduler and cache after the call, whether it
\* threw, and whether it ran new Agenda(...).  startOk: agenda.start() succeeds.
initializeAgenda(pingOk, connectOk, startOk) ==
    IF ~mongoUri
    THEN [cachedClient |-> cachedClient, agenda |-> agenda,
          agendaInitialized |-> agendaInitialized, threw |-> TRUE, created |-> FALSE]
    ELSE IF agenda = "instance" /\ agendaInitialized
    THEN [cachedClient |-> cachedClient, agenda |-> agenda,
          agendaInitialized |-> agendaInitialized, threw |-> FALSE, created |-> FALSE]
    ELSE LET c == connectToDatabase(pingOk, connectOk) IN
         IF c.threw
         THEN [cachedClient |-> c.cachedClient, agenda |-> agenda,
               agendaInitialized |-> FALSE, threw |-> TRUE, created |-> FALSE]
         ELSE [cachedClient |-> c.cachedClient, agenda |-> "instance",
               agendaInitialized |-> startOk, threw |-> ~startOk, created |-> TRUE]

\* an await takes no noticeable time, or SlowAwait seconds
Elapse(slow) ==
    /\ slow => slowAwaits < MaxSlowAwaits
    /\ now' = now + (IF slow THEN SlowAwait ELSE 0)
    /\ slowAwaits' = slowAwaits + (IF slow THEN 1 ELSE 0)

\* res.status(status).json(body), which ends the handler
Respond(status, body) ==
    /\ response' = [status |-> status, body |-> body]
    /\ pc' = "done"

\* the outer catch of the handler
RespondFailed == Respond(500, [error |-> "Failed to schedule sequence"])

\* agenda.schedule(sendTime, 'send email', {to, ...}) persisted a job
jobOf(sendTime, item, i) ==
    [name |-> "send email", nextRunAt |-> sendTime, to |-> item.recipient, item |-> i]

\* the entry pushed on scheduledEmails
entryOf(sendTime, item, i) ==
    [email |-> item.recipient, scheduledFor |-> sendTime, item |-> i]

Item == req.sequence[idx]
InLoop == idx <= Len(req.sequence)
Note(kind, day) == outcome' = Append(outcome, [item |-> idx, kind |-> kind, day |-> day])

loopVars == <<idx, hasValidEmails, hasMissingRecipients, options, currentDate,
              foundValidDay, daysChecked, scheduledEmails, outcome>>
serverVars == <<cachedClient, agenda, agendaInitialized>>
clockVars == <<now, slowAwaits>>
\* what the schedule-sequence handler never writes
constVars == <<mongoUri, req, reqTime, monitorVars, connVars, mailVars, initVars, userVars>>

(***************************************************************************)
(* POST /api/schedule-sequence: the initialisation guard.                  *)
(***************************************************************************)
AfterGuard == IF req.sendNow THEN "connect" ELSE "options"

\* if (!agenda || !agendaInitialized) is false: nothing to await
GuardReady ==
    /\ pc = "guard"
    /\ agenda = "instance" /\ agendaInitialized
    /\ pc' = AfterGuard
    /\ UNCHANGED <<serverVars, clockVars, constVars, loopVars, jobs, response>>

\* await initializeAgenda(); if (!agenda) return 503
GuardInitialize ==
    /\ pc = "guard"
    /\ ~(agenda = "instance" /\ agendaInitialized)
    /\ \E pingOk, connectOk, startOk, slow \in BOOLEAN :
        LET r == initializeAgenda(pingOk, connectOk, startOk) IN
        /\ Elapse(slow)
        /\ cachedClient' = r.cachedClient
        /\ agenda' = r.agenda
        /\ agendaInitialized' = r.agendaInitialized
        /\ IF r.threw THEN RespondFailed
           ELSE IF r.agenda = "undefined"
                THEN Respond(503, [error |-> "Scheduling service is not available"])
                ELSE pc' = AfterGuard /\ UNCHANGED response
    /\ UNCHANGED <<constVars, loopVars, jobs>>

(***************************************************************************)
(* Immediate mode (sendNow).                                               *)
(***************************************************************************)
\* await connectToDatabase() before the loop
ImmConnect ==
    /\ pc = "connect"
    /\ \E pingOk, connectOk, slow \in BOOLEAN :
        LET c == connectToDatabase(pingOk, connectOk) IN
        /\ Elapse(slow)
        /\ cachedClient' = c.cachedClient
        /\ IF c.threw THEN RespondFailed
           ELSE pc' = "immLoop" /\ UNCHANGED response
    /\ UNCHANGED <<agenda, agendaInitialized, constVars, loopVars, jobs>>

\* an item that is not a coldEmail
ImmOther ==
    /\ pc = "immLoop" /\ InLoop
    /\ Item.type # "coldEmail"
    /\ idx' = idx + 1
    /\ Note("notEmail", undefined)
    /\ UNCHANGED <<serverVars, clockVars, constVars, jobs, response, pc, hasValidEmails,
                   hasMissingRecipients, options, currentDate, foundValidDay, daysChecked,
                   scheduledEmails>>

\* the missing recipient goes unrecorded
ImmMissingRecipientNoFlag ==
    /\ pc = "immLoop" /\ InLoop
    /\ Item.type = "coldEmail"
    /\ falsy(Item.recipient)
    /\ idx' = idx + 1
    /\ Note("missingRecipient", undefined)
    /\ UNCHANGED <<serverVars, clockVars, constVars, jobs, response, pc, hasValidEmails,
                   hasMissingRecipients, options, currentDate, foundValidDay, daysChecked,
                   scheduledEmails>>

\* the item without a recipient is not skipped (no continue): it is scheduled
ImmMissingRecipientFallsThrough ==
    /\ pc = "immLoop" /\ InLoop
    /\ Item.type = "coldEmail"
    /\ falsy(Item.recipient)
    /\ hasMissingRecipients' = TRUE
    /\ hasValidEmails' = TRUE
    /\ jobs' = Append(jobs, jobOf(addMinutes(now, ImmediateDelayMinutes), Item, idx))
    /\ scheduledEmails' =
           Append(scheduledEmails, entryOf(addMinutes(now, ImmediateDelayMinutes), Item, idx))
    /\ idx' = idx + 1
    /\ Note("scheduled", DayIndex(addMinutes(now, ImmediateDelayMinutes)))
    /\ UNCHANGED <<serverVars, clockVars, constVars, response, pc, options, currentDate,
                   foundValidDay, daysChecked>>

\* if (!item.data?.recipient) { hasMissingRecipients = true; continue; }
ImmMissingRecipient ==
    /\ pc = "immLoop" /\ InLoop
    /\ Item.type = "coldEmail"
    /\ falsy(Item.recipient)
    /\ hasMissingRecipients' = TRUE
    /\ idx' = idx + 1
    /\ Note("missingRecipient", undefined)
    /\ UNCHANGED <<serverVars, clockVars, constVars, jobs, response, pc, hasValidEmails,
                   options, currentDate, foundValidDay, daysChecked, scheduledEmails>>

\* a send time without the added minute
immediateSendTimeNoDelay(t) == t

\* const sendTime = new Date(); sendTime.setMinutes(sendTime.getMinutes() + 1)
immediateSendTime(t) == addMinutes(t, ImmediateDelayMinutes)

\* the first agenda.schedule succeeds
ImmSchedule ==
    /\ pc = "immLoop" /\ InLoop
    /\ Item.type = "coldEmail"
    /\ ~falsy(Item.recipient)
    /\ hasValidEmails' = TRUE
    /\ LET sendTime == immediateSendTime(now) IN
        /\ jobs' = Append(jobs, jobOf(sendTime, Item, idx))
        /\ scheduledEmails' = Append(scheduledEmails, entryOf(sendTime, Item, idx))
        /\ Note("scheduled", DayIndex(sendTime))
    /\ \E slow \in BOOLEAN : Elapse(slow)
    /\ idx' = idx + 1
    /\ UNCHANGED <<serverVars, constVars, response, pc, hasMissingRecipients, options,
                   currentDate, foundValidDay, daysChecked>>

\* the first agenda.schedule throws an error other than MongoNotConnectedError:
\* logged, the loop goes on
ImmScheduleError ==
    /\ pc = "immLoop" /\ InLoop
    /\ Item.type = "coldEmail"
    /\ ~falsy(Item.recipient)
    /\ hasValidEmails' = TRUE
    /\ \E slow \in BOOLEAN : Elapse(slow)
    /\ idx' = idx + 1
    /\ Note("failed", undefined)
    /\ UNCHANGED <<serverVars, constVars, jobs, response, pc, hasMissingRecipients,
                   options, currentDate, foundValidDay, daysChecked, scheduledEmails>>

\* the first agenda.schedule throws MongoNotConnectedError: initializeAgenda(),
\* then one more agenda.schedule
ImmScheduleRetry ==
    /\ pc = "immLoop" /\ InLoop
    /\ Item.type = "coldEmail"
    /\ ~falsy(Item.recipient)
    /\ hasValidEmails' = TRUE
    /\ \E pingOk, connectOk, startOk, retryOk, slow \in BOOLEAN :
        LET r == initializeAgenda(pingOk, connectOk, startOk)
            sendTime == immediateSendTime(now)
        IN
        /\ Elapse(slow)
        /\ cachedClient' = r.cachedClient
        /\ agenda' = r.agenda
        /\ agendaInitialized' = r.agendaInitialized
        /\ IF r.threw
           THEN /\ RespondFailed
                /\ Note("failed", undefined)
                /\ UNCHANGED <<idx, jobs, scheduledEmails>>
           ELSE /\ idx' = idx + 1
                /\ UNCHANGED <<pc, response>>
                /\ IF retryOk
                   THEN /\ jobs' = Append(jobs, jobOf(sendTime, Item, idx))
                        /\ scheduledEmails' =
                               Append(scheduledEmails, entryOf(sendTime, Item, idx))
                        /\ Note("scheduled", DayIndex(sendTime))
                   ELSE /\ Note("failed", undefined)
                        /\ UNCHANGED <<jobs, scheduledEmails>>
    /\ UNCHANGED <<constVars, hasMissingRecipients, options, currentDate, foundValidDay,
                   daysChecked>>

NoRecipientsMessage ==
    "None of your email nodes have recipient addresses. Please add recipient email addresses to your nodes."
NoEmailNodesMessage == "No valid email nodes found in the sequence."

\* after the loop: 400 if no item was eligible, 200 with the list otherwise
ImmRespond ==
    /\ pc = "immLoop" /\ ~InLoop
    /\ IF ~hasValidEmails
       THEN Respond(400, [error |-> IF hasMissingRecipients THEN NoRecipientsMessage
                                    ELSE NoEmailNodesMessage,
                          message |-> "Failed to send emails"])
       ELSE Respond(200, [message |-> "Sequence sent successfully",
                          scheduledEmails |-> scheduledEmails])
    /\ UNCHANGED <<serverVars, clockVars, constVars, loopVars, jobs>>

(***************************************************************************)
(* Deferred mode.                                                          *)
(***************************************************************************)
\* the defaults the request's schedulingOptions are spread over
defaultOptions(t) ==
    [startDate |-> t, fromTime |-> HourString(9), toTime |-> HourString(17),
     days |-> <<monday, tuesday, wednesday, thursday, friday>>]

\* { ...defaults, ...schedulingOptions }
spread(defaults, given) ==
    [k \in DOMAIN defaults |-> IF k \in DOMAIN given THEN given[k] ELSE defaults[k]]

fromHour == parseHour(options.fromTime)
toHour == parseHour(options.toTime)
scheduleDays == scheduleDaysOf(options.days)

\* options, startDate, currentDate = new Date(startDate)
NormalizeOptions ==
    /\ pc = "options"
    /\ options' = spread(defaultOptions(now), req.schedulingOptions)
    /\ currentDate' = options'.startDate
    /\ pc' = "defLoop"
    /\ UNCHANGED <<serverVars, clockVars, constVars, jobs, response, idx, hasValidEmails,
                   hasMissingRecipients, foundValidDay, daysChecked, scheduledEmails,
                   outcome>>

\* a wait that pushes the day cursor by its delay
DefOtherWaits ==
    /\ pc = "defLoop" /\ InLoop
    /\ Item.type # "coldEmail"
    /\ idx' = idx + 1
    /\ currentDate' = IF "delay" \in DOMAIN Item THEN addDays(currentDate, Item.delay)
                      ELSE currentDate
    /\ Note("notEmail", undefined)
    /\ UNCHANGED <<serverVars, clockVars, constVars, jobs, response, pc, hasValidEmails,
                   hasMissingRecipients, options, foundValidDay, daysChecked,
                   scheduledEmails>>

\* an item that is not a coldEmail
DefOther ==
    /\ pc = "defLoop" /\ InLoop
    /\ Item.type # "coldEmail"
    /\ idx' = idx + 1
    /\ Note("notEmail", undefined)
    /\ UNCHANGED <<serverVars, clockVars, constVars, jobs, response, pc, hasValidEmails,
                   hasMissingRecipients, options, currentDate, foundValidDay, daysChecked,
                   scheduledEmails>>

\* a coldEmail item: let foundValidDay = false; let daysChecked = 0
DefEnterItem ==
    /\ pc = "defLoop" /\ InLoop
    /\ Item.type = "coldEmail"
    /\ foundValidDay' = FALSE
    /\ daysChecked' = 0
    /\ pc' = "defDays"
    /\ UNCHANGED <<serverVars, clockVars, constVars, jobs, response, idx, hasValidEmails,
                   hasMissingRecipients, options, currentDate, scheduledEmails, outcome>>

\* a loop that checks one day too many
LoopGoesOnOffByOne(found, checked) == ~found /\ checked <= MaxDaysChecked

\* the while condition after an iteration that leaves found and checked
LoopGoesOn(found, checked) == ~found /\ checked < MaxDaysChecked

\* the day under the cursor is not a schedule day: move to the next day
DefNextDay ==
    /\ pc = "defDays"
    /\ ~includes(scheduleDays, getDay(currentDate))
    /\ currentDate' = addDays(currentDate, 1)
    /\ daysChecked' = daysChecked + 1
    /\ IF LoopGoesOn(foundValidDay, daysChecked')
       THEN UNCHANGED <<pc, idx, outcome>>
       ELSE pc' = "defLoop" /\ idx' = idx + 1 /\ Note("noEligibleDay", undefined)
    /\ UNCHANGED <<serverVars, clockVars, constVars, jobs, response, hasValidEmails,
                   hasMissingRecipients, options, foundValidDay, scheduledEmails>>

\* a send time that keeps the cursor's seconds: setHours(randomHour, randomMinute)
deferredSendTimeKeepSeconds(cursor, rh, rm) ==
    setHours(cursor, randomHourOf(rh, fromHour, toHour), randomMinuteOf(rm),
             getSeconds(cursor))

\* sendTime = new Date(currentDate); sendTime.setHours(randomHour, randomMinute, 0, 0)
deferredSendTime(cursor, rh, rm) ==
    setHours(cursor, randomHourOf(rh, fromHour, toHour), randomMinuteOf(rm), 0)

\* after a job was scheduled: currentDate.setDate(currentDate.getDate() + 1)
cursorAfterScheduleStuck(cursor) == cursor
cursorAfterSchedule(cursor) == addDays(cursor, 1)

\* a schedule day, a send time in the future, agenda.schedule succeeds
DefSchedule ==
    /\ pc = "defDays"
    /\ includes(scheduleDays, getDay(currentDate))
    /\ \E rh \in HourDraws, rm \in MinuteDraws :
        LET sendTime == deferredSendTime(currentDate, rh, rm) IN
        /\ sendTime > now
        /\ jobs' = Append(jobs, jobOf(sendTime, Item, idx))
        /\ scheduledEmails' = Append(scheduledEmails, entryOf(sendTime, Item, idx))
        /\ Note("scheduled", DayIndex(sendTime))
    /\ \E slow \in BOOLEAN : Elapse(slow)
    /\ foundValidDay' = TRUE
    /\ currentDate' = cursorAfterSchedule(currentDate)
    /\ daysChecked' = daysChecked + 1
    /\ pc' = "defLoop"
    /\ idx' = idx + 1
    /\ UNCHANGED <<serverVars, constVars, response, hasValidEmails, hasMissingRecipients,
                   options>>

\* a schedule day, a send time in the future, agenda.schedule throws: the
\* handler's catch answers 500
DefScheduleFails ==
    /\ pc = "defDays"
    /\ includes(scheduleDays, getDay(currentDate))
    /\ \E rh \in HourDraws, rm \in MinuteDraws : deferredSendTime(currentDate, rh, rm) > now
    /\ \E slow \in BOOLEAN : Elapse(slow)
    /\ foundValidDay' = TRUE
    /\ Note("failed", undefined)
    /\ RespondFailed
    /\ UNCHANGED <<serverVars, constVars, jobs, idx, hasValidEmails, hasMissingRecipients,
                   options, currentDate, daysChecked, scheduledEmails>>

\* a drop that moves the cursor to the next day
DefDropPastAdvancing ==
    /\ pc = "defDays"
    /\ includes(scheduleDays, getDay(currentDate))
    /\ \E rh \in HourDraws, rm \in MinuteDraws :
           ~(deferredSendTime(currentDate, rh, rm) > now)
    /\ foundValidDay' = TRUE
    /\ daysChecked' = daysChecked + 1
    /\ currentDate' = addDays(currentDate, 1)
    /\ Note("droppedPast", DayIndex(currentDate))
    /\ pc' = "defLoop"
    /\ idx' = idx + 1
    /\ UNCHANGED <<serverVars, clockVars, constVars, jobs, response, hasValidEmails,
                   hasMissingRecipients, options, scheduledEmails>>

\* a schedule day, but the send time drawn is not in the future: nothing is
\* scheduled and the loop ends for this item
DefDropPast ==
    /\ pc = "defDays"
    /\ includes(scheduleDays, getDay(currentDate))
    /\ \E rh \in HourDraws, rm \in MinuteDraws : ~(deferredSendTime(currentDate, rh, rm) > now)
    /\ foundValidDay' = TRUE
    /\ daysChecked' = daysChecked + 1
    /\ Note("droppedPast", DayIndex(currentDate))
    /\ pc' = "defLoop"
    /\ idx' = idx + 1
    /\ UNCHANGED <<serverVars, clockVars, constVars, jobs, response, hasValidEmails,
                   hasMissingRecipients, options, currentDate, scheduledEmails>>

\* a response that turns omitted items into a top-level error
DefRespondStrict ==
    /\ pc = "defLoop" /\ ~InLoop
    /\ IF \E k \in 1..Len(outcome) : outcome[k].kind \in {"noEligibleDay", "droppedPast"}
       THEN RespondFailed
       ELSE Respond(200, [message |-> "Sequence scheduled successfully",
                          scheduledEmails |-> scheduledEmails,
                          schedulingOptions |-> options])
    /\ UNCHANGED <<serverVars, clockVars, constVars, loopVars, jobs>>

\* after the loop: 200 with the list and the options used
DefRespond ==
    /\ pc = "defLoop" /\ ~InLoop
    /\ Respond(200, [message |-> "Sequence scheduled successfully",
                     scheduledEmails |-> scheduledEmails,
                     schedulingOptions |-> options])
    /\ UNCHANGED <<serverVars, clockVars, constVars, loopVars, jobs>>

(***************************************************************************)
(* Specification.                                                          *)
(***************************************************************************)
Next ==
    \/ GuardReady
    \/ GuardInitialize
    \/ ImmConnect
    \/ ImmOther
    \/ ImmMissingRecipient
    \/ ImmSchedule
    \/ ImmScheduleError
    \/ ImmScheduleRetry
    \/ ImmRespond
    \/ NormalizeOptions
    \/ DefOther
    \/ DefEnterItem
    \/ DefNextDay
    \/ DefSchedule
    \/ DefScheduleFails
    \/ DefDropPast
    \/ DefRespond

Spec == Init /\ [][Next]_vars

TypeOK ==
    /\ pc \in {"guard", "connect", "immLoop", "options", "defLoop", "defDays", "done"}
    /\ idx \in 1..(Len(req.sequence) + 1)
    /\ daysChecked \in 0..MaxDaysChecked
    /\ response.status \in {0, 200, 400, 500, 503}
    /\ (pc = "done") = (response.status # 0)

(***************************************************************************)
(* Properties of the sequence planner.                                     *)
(***************************************************************************)
Deferred == ~req.sendNow
Immediate == req.sendNow
Done == pc = "done"
ColdItems == {i \in 1..Len(req.sequence) : req.sequence[i].type = "coldEmail"}
EligibleItems == {i \in ColdItems : ~falsy(req.sequence[i].recipient)}
Entries == 1..Len(scheduledEmails)
Kinds(kind) == {k \in 1..Len(outcome) : outcome[k].kind = kind}

\* C1: in deferred mode the scheduledFor values of one call lie on strictly
\* increasing calendar days, in the order of the input items; no two entries
\* share a calendar day.
C1_MonotonicCursor ==
    Deferred =>
        \A i, j \in Entries :
            i < j => /\ scheduledEmails[i].item < scheduledEmails[j].item
                     /\ DayIndex(scheduledEmails[i].scheduledFor)
                            < DayIndex(scheduledEmails[j].scheduledFor)

\* a deferred call that scheduled three items
C1_Witness ==
    /\ Deferred /\ Done /\ response.status = 200
    /\ Len(scheduledEmails) = 3
    /\ Cardinality(EligibleItems) = 3

\* C2 (as claimed): in deferred mode an item whose drawn send time is in the
\* past creates no job and the cursor still advances by one day, so no later
\* item lands on the dropped item's calendar day.
C2_DropAdvancesCursor ==
    Deferred =>
        \A k \in Kinds("droppedPast") :
            /\ \A j \in 1..Len(jobs) : jobs[j].item # outcome[k].item
            /\ (k = Len(outcome) /\ pc = "defLoop")
                    => DayIndex(currentDate) = outcome[k].day + 1
            /\ \A e \in Entries :
                    scheduledEmails[e].item > outcome[k].item
                        => DayIndex(scheduledEmails[e].scheduledFor) # outcome[k].day

\* C2 (amended): in deferred mode an item whose drawn send time is in the past
\* creates no job and no entry and leaves the cursor on the same day, so the
\* next coldEmail item is searched from that same day.
C2_DropKeepsCursor ==
    Deferred =>
        \A k \in Kinds("droppedPast") :
            /\ \A j \in 1..Len(jobs) : jobs[j].item # outcome[k].item
            /\ \A e \in Entries : scheduledEmails[e].item # outcome[k].item
            /\ (k = Len(outcome) /\ pc = "defLoop")
                    => DayIndex(currentDate) = outcome[k].day

\* an item was dropped and the next item was scheduled on the same calendar day
C2_Witness ==
    /\ Deferred
    /\ \E k \in Kinds("droppedPast") : \E e \in Entries :
        /\ scheduledEmails[e].item = outcome[k].item + 1
        /\ DayIndex(scheduledEmails[e].scheduledFor) = outcome[k].day

\* C3: in deferred mode a coldEmail item without a recipient is skipped: no
\* job is persisted for it and it does not appear in scheduledEmails.
C3_NoRecipientSkipped ==
    Deferred =>
        /\ \A j \in 1..Len(jobs) : ~falsy(jobs[j].to)
        /\ \A e \in Entries : ~falsy(scheduledEmails[e].email)

\* the weekday of an instant is named, in any letter case, in a days list
NamedIn(days, t) ==
    \E i \in 1..Len(days) : toLowerCase(days[i]) = WeekdayNames[getDay(t) + 1]

\* C4: in deferred mode no scheduledFor, and no job's run time, falls on a
\* weekday that the days list of the options used does not name.
C4_EligibleDayRespect ==
    Deferred =>
        /\ \A e \in Entries : NamedIn(options.days, scheduledEmails[e].scheduledFor)
        /\ \A j \in 1..Len(jobs) : NamedIn(options.days, jobs[j].nextRunAt)

\* two items scheduled under a days list written in capitals
C4_Witness ==
    /\ Deferred /\ Done
    /\ Len(scheduledEmails) = 2
    /\ options.days = <<MondayCapital, FridayUpper>>
    /\ getDay(scheduledEmails[2].scheduledFor) = 5

\* C5: in deferred mode the hour of every scheduledFor lies within
\* [fromHour, toHour] inclusive, for every pair of hours 0..23.
C5_WindowContainment ==
    Deferred =>
        \A e \in Entries :
            /\ fromHour <= getHours(scheduledEmails[e].scheduledFor)
            /\ getHours(scheduledEmails[e].scheduledFor) <= toHour

\* C6: in immediate mode a sequence without a coldEmail item that has a
\* recipient creates no job and is rejected: with 400 whenever the scheduler
\* and the connection were obtained, and the error message tells "coldEmail
\* items without recipients" from "no coldEmail items".
C6_NoEligibleItems ==
    (Immediate /\ EligibleItems = {}) =>
        /\ jobs = <<>>
        /\ scheduledEmails = <<>>
        /\ Done =>
            /\ response.status \in {400, 500}
            /\ (agendaInitialized /\ cachedClient = "client") => response.status = 400
            /\ response.status = 400 =>
                /\ response.body.error =
                       (IF ColdItems # {} THEN NoRecipientsMessage ELSE NoEmailNodesMessage)
                /\ NoRecipientsMessage # NoEmailNodesMessage

\* a request rejected because every coldEmail item lacks a recipient
C6_Witness ==
    /\ Immediate /\ Done
    /\ Len(req.sequence) >= 2
    /\ response.status = 400
    /\ response.body.error = NoRecipientsMessage

\* the response tells that items were skipped for a missing recipient
ReportsSkipped(r) ==
    \/ DOMAIN r.body \ {"message", "error", "scheduledEmails", "schedulingOptions"} # {}
    \/ "error" \in DOMAIN r.body /\ r.body.error = NoRecipientsMessage

EntryItems == {scheduledEmails[e].item : e \in Entries}

\* C7 (as claimed): in immediate mode, with coldEmail items some of which
\* lack a recipient, the result holds exactly one entry per coldEmail item
\* with a recipient and the response indicates the skipped items.
C7_SkipsReported ==
    (Immediate /\ Done /\ response.status = 200 /\ ColdItems # EligibleItems) =>
        /\ Len(scheduledEmails) = Cardinality(EligibleItems)
        /\ ReportsSkipped(response)

\* C7 (amended): in immediate mode the result holds at most one entry per
\* coldEmail item with a recipient, in input order, exactly one when no
\* schedule call failed, and none for any other item; the 200 response
\* carries only the message and the list, with no indication of skipped items.
C7_OneEntryPerEligibleItem ==
    (Immediate /\ Done /\ response.status = 200) =>
        /\ \A i, j \in Entries : i < j => scheduledEmails[i].item < scheduledEmails[j].item
        /\ EntryItems \subseteq EligibleItems
        /\ Kinds("failed") = {} => EntryItems = EligibleItems
        /\ DOMAIN response.body = {"message", "scheduledEmails"}
        /\ response.body.scheduledEmails = scheduledEmails

\* two coldEmail items, one without a recipient: one entry, answered 200
C7_Witness ==
    /\ Immediate /\ Done /\ response.status = 200
    /\ Len(req.sequence) = 2
    /\ Cardinality(ColdItems) = 2
    /\ Cardinality(EligibleItems) = 1
    /\ Len(scheduledEmails) = 1
    /\ ~ReportsSkipped(response)

\* C8: in immediate mode every send time, of the entries and of the jobs, is
\* at least one minute after the arrival of the request.
C8_ImmediateFloor ==
    Immediate =>
        /\ \A e \in Entries : scheduledEmails[e].scheduledFor >= reqTime + SecPerMinute
        /\ \A j \in 1..Len(jobs) : jobs[j].nextRunAt >= reqTime + SecPerMinute

\* two items sent at once, the second after a slow schedule call
C8_Witness ==
    /\ Immediate /\ Done
    /\ Len(scheduledEmails) >= 2
    /\ Len(jobs) = Len(scheduledEmails)
    /\ scheduledEmails[1].scheduledFor = reqTime + SecPerMinute
    /\ scheduledEmails[2].scheduledFor > reqTime + SecPerMinute

\* the first Monday after the day of an instant
FirstMondayAfter(t) ==
    CHOOSE d \in (DayIndex(t) + 1)..(DayIndex(t) + 7) : getDay(d * SecPerDay) = 1

\* C9: three coldEmail items, days = [monday], a start date on a Tuesday,
\* fromTime = toTime = "09:00": when the request succeeds, exactly three
\* entries, on the next three consecutive Mondays after the start date, each
\* in hour 09 with seconds zero.
C9_ThreeMondays ==
    (req = MondayScenario /\ Done /\ response.status = 200) =>
        /\ getDay(StartTuesday) = 2
        /\ Len(scheduledEmails) = 3
        /\ \A k \in 1..3 :
            /\ k \in Entries
            /\ DayIndex(scheduledEmails[k].scheduledFor)
                   = FirstMondayAfter(StartTuesday) + 7 * (k - 1)
            /\ getDay(scheduledEmails[k].scheduledFor) = 1
            /\ getHours(scheduledEmails[k].scheduledFor) = 9
            /\ getSeconds(scheduledEmails[k].scheduledFor) = 0

\* the scenario answered 200, the third entry at 09:59:00
C9_Witness ==
    /\ req = MondayScenario /\ Done /\ response.status = 200
    /\ Len(scheduledEmails) = 3
    /\ getMinutes(scheduledEmails[3].scheduledFor) = 59

\* the days list of the options used names no weekday
NoEligibleDay ==
    /\ Deferred
    /\ pc \in {"defLoop", "defDays", "done"}
    /\ options # <<>>
    /\ \A i \in 1..Len(options.days) :
           \A n \in 1..7 : toLowerCase(options.days[i]) # WeekdayNames[n]

\* C10: with days = [] or only unknown names, every coldEmail item is given
\* up after exactly 14 checked days, no job is created, the result list is
\* empty and the request is answered 200 without an error.
C10_EmptyDays ==
    NoEligibleDay =>
        /\ daysChecked <= MaxDaysChecked
        /\ jobs = <<>>
        /\ scheduledEmails = <<>>
        /\ \A k \in 1..Len(outcome) : outcome[k].kind \in {"notEmail", "noEligibleDay"}
        /\ DayIndex(currentDate) - DayIndex(options.startDate)
               = MaxDaysChecked * Cardinality(Kinds("noEligibleDay"))
                     + (IF pc = "defDays" THEN daysChecked ELSE 0)
        /\ Done =>
            /\ response.status = 200
            /\ "error" \notin DOMAIN response.body
            /\ response.body.scheduledEmails = <<>>
            /\ {outcome[k].item : k \in Kinds("noEligibleDay")} = ColdItems

\* a request with an unknown day name whose two items were both given up
C10_Witness ==
    /\ NoEligibleDay /\ Done
    /\ options.days = <<funday>>
    /\ Cardinality(ColdItems) = 2
    /\ Cardinality(Kinds("noEligibleDay")) = 2
    /\ response.status = 200

\* the handler went past the initialisation guard and normalised the options
PastGuard == options # <<>>

\* the items of the sequence left without an entry by the deferred loop
OmittedItems == {outcome[k].item : k \in Kinds("noEligibleDay") \cup Kinds("droppedPast")}

\* C11: in deferred mode, when the scheduler was available and no schedule
\* call failed, the request is answered 200 'Sequence scheduled successfully'
\* with a list no longer than the number of coldEmail items and with the
\* normalised options used; items without an eligible day or with a drawn
\* time in the past are left out of the list and raise no top-level error.
C11_DeferredSuccess ==
    (Deferred /\ Done /\ PastGuard /\ Kinds("failed") = {}) =>
        /\ response.status = 200
        /\ DOMAIN response.body = {"message", "scheduledEmails", "schedulingOptions"}
        /\ response.body.message = "Sequence scheduled successfully"
        /\ response.body.scheduledEmails = scheduledEmails
        /\ Len(response.body.scheduledEmails) <= Cardinality(ColdItems)
        /\ response.body.schedulingOptions = options
        /\ \A k \in DOMAIN req.schedulingOptions :
               response.body.schedulingOptions[k] = req.schedulingOptions[k]
        /\ DOMAIN response.body.schedulingOptions = {"startDate", "fromTime", "toTime", "days"}
        /\ EntryItems = ColdItems \ OmittedItems
        /\ EntryItems \cap OmittedItems = {}

\* a deferred request answered 200 with one item scheduled and one left out
C11_Witness ==
    /\ Deferred /\ Done /\ response.status = 200
    /\ Cardinality(ColdItems) = 2
    /\ Len(response.body.scheduledEmails) = 1
    /\ Kinds("droppedPast") # {}

(***************************************************************************)
(* The Job-Health Monitor: the setInterval callback, its registration at   *)
(* module load, and the emailJobs documents it unlocks.                    *)
(***************************************************************************)
\* documents in the emailJobs collection
MaxJobs == 2
\* minutes of wall clock the server's life is followed for
MaxTicks == 8
\* setInterval(..., 60000), in seconds
MonitorPeriod == 60

JobIds == 1..MaxJobs

\* lockedAt: null, and lockedAt: a Date
unlocked == <<>>
lockedSince(t) == <<t>>

\* ages in seconds of the leases a store holds when a sweep or the server starts
LeaseAges == {240, 299, 300, 301, 360}
Leases == {unlocked} \cup {lockedSince(Now0 - a) : a \in LeaseAges}

\* a 'send email' document of the store
storedJob(j, lease) ==
    [name |-> "send email", nextRunAt |-> Now0 - 2 * SecPerMinute * j, lockedAt |-> lease,
     to |-> <<"lead", j>>]

Stores == {[j \in JobIds |-> storedJob(j, l[j])] : l \in [JobIds -> Leases]}

\* no schedule-sequence request in play
RequestIdle ==
    /\ req = <<>>
    /\ reqTime = Now0
    /\ jobs = <<>>
    /\ idx = 1
    /\ hasValidEmails = FALSE
    /\ hasMissingRecipients = FALSE
    /\ options = <<>>
    /\ currentDate = 0
    /\ foundValidDay = FALSE
    /\ daysChecked = 0
    /\ scheduledEmails = <<>>
    /\ outcome = <<>>
    /\ response = NoResponse

requestVars == <<req, reqTime, jobs, loopVars, response>>

\* what the monitor, module load and start() never write
monitorFrame == <<requestVars, connVars, mailVars, initVars, userVars>>

\* countDocuments({lockedAt: {$ne: null}})
lockedJobs(st) == Cardinality({j \in DOMAIN st : st[j].lockedAt # unlocked})

\* new Date(Date.now() - 5 * 60 * 1000)
fiveMinutesAgo(t) == t - 5 * 60

\* an update that also takes the leases exactly as old as the threshold ($lte)
updateManyInclusive(st, threshold) ==
    [j \in DOMAIN st |->
        IF st[j].lockedAt # unlocked /\ st[j].lockedAt[1] <= threshold
        THEN [st[j] EXCEPT !.lockedAt = unlocked]
        ELSE st[j]]

\* updateMany({lockedAt: {$lt: threshold}}, {$set: {lockedAt: null}})
updateMany(st, threshold) ==
    [j \in DOMAIN st |->
        IF st[j].lockedAt # unlocked /\ st[j].lockedAt[1] < threshold
        THEN [st[j] EXCEPT !.lockedAt = unlocked]
        ELSE st[j]]

\* the store after the callback's queries at instant t
sweepStore(st, t) ==
    IF lockedJobs(st) > 0 THEN updateMany(st, fiveMinutesAgo(t)) ELSE st

\* the setInterval callback, its Date.now() read at instant t.  storeOk: the
\* countDocuments and updateMany calls do not throw.
SweepAt(t, pingOk, connectOk, storeOk) ==
    IF agenda = "instance" /\ agendaInitialized
    THEN LET c == connectToDatabase(pingOk, connectOk) IN
         /\ cachedClient' = c.cachedClient
         /\ IF c.threw \/ ~storeOk
            THEN UNCHANGED <<store, lastSweep>>
            ELSE /\ store' = sweepStore(store, t)
                 /\ lastSweep' = <<[began |-> now, at |-> t, before |-> store]>>
    ELSE UNCHANGED <<cachedClient, store, lastSweep>>

\* the callback applied to a store, whatever the scheduler's state
SweepInit ==
    /\ now = Now0
    /\ \E s \in ServerStates :
        /\ mongoUri = s.mongoUri
        /\ cachedClient = s.cachedClient
        /\ agenda = s.agenda
        /\ agendaInitialized = s.agendaInitialized
    /\ store \in Stores
    /\ monitorRegistered = FALSE
    /\ lastSweep = <<>>
    /\ slowAwaits = 0
    /\ pc = "sweep"
    /\ RequestIdle
    /\ ConnIdle
    /\ MailIdle
    /\ InitIdle

\* one run of the callback; its awaits may be slow
MonitorSweep ==
    /\ pc = "sweep"
    /\ \E pingOk, connectOk, storeOk, slow \in BOOLEAN :
        /\ Elapse(slow)
        /\ SweepAt(now', pingOk, connectOk, storeOk)
    /\ UNCHANGED <<mongoUri, agenda, agendaInitialized, monitorRegistered, pc, monitorFrame>>

SweepNext == MonitorSweep

SweepSpec == SweepInit /\ [][SweepNext]_vars

\* the lease of job j is older than 5 minutes at instant t
StaleAt(st, j, t) == st[j].lockedAt # unlocked /\ t - st[j].lockedAt[1] > 5 * 60

\* C12: a monitor sweep that reaches the store unlocks every job whose
\* lockedAt is more than 5 minutes in the past (6 minutes for one) and leaves
\* every job locked less than 5 minutes ago (4 minutes for one), and every
\* other field of every job, as they were.
C12_SweepUnlocksStale ==
    [][lastSweep' # lastSweep =>
        \A j \in JobIds :
            /\ store'[j].name = store[j].name
            /\ store'[j].nextRunAt = store[j].nextRunAt
            /\ store'[j].to = store[j].to
            /\ DOMAIN store'[j] = DOMAIN store[j]
            /\ StaleAt(store, j, now') => store'[j].lockedAt = unlocked
            /\ ~StaleAt(store, j, now') => store'[j].lockedAt = store[j].lockedAt
            /\ store[j].lockedAt = lockedSince(now - 6 * 60) => store'[j].lockedAt = unlocked
            /\ store[j].lockedAt = lockedSince(now - 4 * 60)
                   => store'[j].lockedAt = store[j].lockedAt]_vars

\* a sweep found one job locked for 6 minutes and one for 4 minutes: the
\* first is unlocked, the second still locked
C12_Witness ==
    /\ lastSweep # <<>>
    /\ \E j, k \in JobIds :
        /\ lastSweep[1].before[j].lockedAt = lockedSince(lastSweep[1].began - 6 * 60)
        /\ store[j].lockedAt = unlocked
        /\ lastSweep[1].before[k].lockedAt = lockedSince(lastSweep[1].began - 4 * 60)
        /\ store[k] = lastSweep[1].before[k]

(***************************************************************************)
(* The life of the process: module load, start(), the scheduling requests  *)
(* that initialise the scheduler later, and the passing of time.           *)
(***************************************************************************)
\* leases a store holds when the process starts (left by an earlier run)
StartLeases == {unlocked, lockedSince(Now0 - 4 * 60), lockedSince(Now0 - 6 * 60)}
StartStores == {[j \in JobIds |-> storedJob(j, l[j])] : l \in [JobIds -> StartLeases]}

\* the module is about to be evaluated: let agenda; let agendaInitialized = false
LifeInit ==
    /\ now = Now0
    /\ mongoUri \in BOOLEAN
    /\ cachedClient = "null"
    /\ agenda = "undefined"
    /\ agendaInitialized = FALSE
    /\ store \in StartStores
    /\ monitorRegistered = FALSE
    /\ lastSweep = <<>>
    /\ slowAwaits = 0
    /\ pc = "load"
    /\ RequestIdle
    /\ ConnIdle
    /\ MailIdle
    /\ InitIdle

\* module evaluation reaches `if (agenda) { ... setInterval(...) }`, then the
\* call of start()
LoadModule ==
    /\ pc = "load"
    /\ monitorRegistered' = (agenda # "undefined")
    /\ pc' = "start"
    /\ UNCHANGED <<now, slowAwaits, mongoUri, serverVars, store, lastSweep, monitorFrame>>

\* start(): return without MONGODB_URI, else connectToDatabase() and the
\* listing of the collections
StartConnect ==
    /\ pc = "start"
    /\ IF ~mongoUri
       THEN pc' = "serving" /\ UNCHANGED cachedClient
       ELSE \E pingOk, connectOk, listOk \in BOOLEAN :
               LET c == connectToDatabase(pingOk, connectOk) IN
               /\ cachedClient' = c.cachedClient
               /\ pc' = IF c.threw \/ ~listOk THEN "serving" ELSE "startAgenda"
    /\ UNCHANGED <<now, slowAwaits, mongoUri, agenda, agendaInitialized, monitorVars,
                   monitorFrame>>

\* start(): try { await initializeAgenda() } catch { keep running }
StartInitializeAgenda ==
    /\ pc = "startAgenda"
    /\ \E pingOk, connectOk, startOk \in BOOLEAN :
        LET r == initializeAgenda(pingOk, connectOk, startOk) IN
        /\ cachedClient' = r.cachedClient
        /\ agenda' = r.agenda
        /\ agendaInitialized' = r.agendaInitialized
    /\ pc' = "serving"
    /\ UNCHANGED <<now, slowAwaits, mongoUri, monitorVars, monitorFrame>>

\* a scheduling request finds the scheduler uninitialised:
\* if (!agenda || !agendaInitialized) await initializeAgenda()
RequestInitializeAgenda ==
    /\ pc = "serving"
    /\ ~(agenda = "instance" /\ agendaInitialized)
    /\ \E pingOk, connectOk, startOk \in BOOLEAN :
        LET r == initializeAgenda(pingOk, connectOk, startOk) IN
        /\ cachedClient' = r.cachedClient
        /\ agenda' = r.agenda
        /\ agendaInitialized' = r.agendaInitialized
    /\ UNCHANGED <<now, slowAwaits, mongoUri, pc, monitorVars, monitorFrame>>

TicksLeft == now < Now0 + MaxTicks * MonitorPeriod

\* a monitor period passes; the interval's callback runs if one was registered
Tick ==
    /\ pc = "serving"
    /\ TicksLeft
    /\ now' = now + MonitorPeriod
    /\ IF monitorRegistered
       THEN \E pingOk, connectOk, storeOk \in BOOLEAN :
               SweepAt(now', pingOk, connectOk, storeOk)
       ELSE UNCHANGED <<cachedClient, store, lastSweep>>
    /\ UNCHANGED <<slowAwaits, mongoUri, agenda, agendaInitialized, monitorRegistered, pc,
                   monitorFrame>>

LifeNext ==
    \/ LoadModule
    \/ StartConnect
    \/ StartInitializeAgenda
    \/ RequestInitializeAgenda
    \/ Tick

LifeSpec == LifeInit /\ [][LifeNext]_vars

\* the module is evaluated, start() runs to its end, and time passes
LifeFairSpec ==
    /\ LifeSpec
    /\ WF_vars(LoadModule)
    /\ WF_vars(StartConnect)
    /\ WF_vars(StartInitializeAgenda)
    /\ WF_vars(Tick)

Started == pc = "serving"

\* C13: once the server has started and the scheduler is initialised, with
\* monitor periods still to come, a job whose lease is older than 5 minutes
\* is eventually unlocked by the monitor.
C13_StaleLeaseUnlocked ==
    \A j \in JobIds :
        (Started /\ agendaInitialized /\ TicksLeft /\ StaleAt(store, j, now))
            ~> (store[j].lockedAt = unlocked)

(***************************************************************************)
(* connectToDatabase() step by step: calls of concurrent requests          *)
(* interleave at the awaits of the ping, the close and the connect, and a  *)
(* route closes the client it was given when shouldCloseClient() says so.  *)
(***************************************************************************)
\* requests that call connectToDatabase during the life followed
MaxCalls == 3

CallIds == 1..MaxCalls

\* the n-th MongoClient object created
clientName(n) == "client" \o ToString(n)
newClient == clientName(Cardinality(DOMAIN clients) + 1)

\* new MongoClient(MONGODB_URI, options): not connected, never closed
freshClient == [open |-> FALSE, closes |-> 0]

IdleCall == [pc |-> "idle", pinged |-> "null", stale |-> FALSE, client |-> "null"]

\* what the connection manager never writes
connFrame == <<now, slowAwaits, pc, mongoUri, agenda, agendaInitialized, requestVars,
               monitorVars, mailVars, initVars, userVars, isVercelServerless>>

\* let cachedClient = null, no request yet
ConnInit ==
    /\ now = Now0
    /\ mongoUri = TRUE
    /\ cachedClient = "null"
    /\ agenda = "undefined"
    /\ agendaInitialized = FALSE
    /\ slowAwaits = 0
    /\ pc = "serving"
    /\ RequestIdle
    /\ MonitorIdle
    /\ MailIdle
    /\ InitIdle
    /\ isVercelServerless \in BOOLEAN
    /\ clients = <<>>
    /\ calls = [i \in CallIds |-> IdleCall]

\* client.close(): one more close call, the client is no longer open
closed(cs, c) == [cs EXCEPT ![c].closes = @ + 1, ![c].open = FALSE]

\* a request calls connectToDatabase(): with a cached client the ping is
\* started, without one a new client starts to connect
CallEnter ==
    /\ \E i \in CallIds :
        /\ calls[i].pc = "idle"
        /\ \A k \in 1..(i - 1) : calls[k].pc # "idle"
        /\ IF cachedClient # "null"
           THEN /\ calls' = [calls EXCEPT ![i].pc = "ping", ![i].pinged = cachedClient]
                /\ UNCHANGED clients
           ELSE /\ calls' = [calls EXCEPT ![i].pc = "connect", ![i].client = newClient]
                /\ clients' = clients @@ (newClient :> freshClient)
    /\ UNCHANGED <<cachedClient, connFrame>>

\* the ping of an open client answers within 2 s:
\* return { client: cachedClient, db: cachedDb }
PingResolves ==
    /\ \E i \in CallIds :
        /\ calls[i].pc = "ping"
        /\ clients[calls[i].pinged].open
        /\ calls' = [calls EXCEPT ![i].pc = "use", ![i].client = cachedClient]
    /\ UNCHANGED <<cachedClient, clients, connFrame>>

\* the ping rejects or times out: try { await cachedClient.close(true) }.
\* With the cache emptied meanwhile the call throws a TypeError, which is
\* caught, and the code goes on to cachedClient = null and the new client.
PingFails ==
    /\ \E i \in CallIds :
        /\ calls[i].pc = "ping"
        /\ IF cachedClient = "null"
           THEN /\ calls' = [calls EXCEPT ![i].pc = "connect", ![i].stale = TRUE,
                                          ![i].client = newClient]
                /\ clients' = clients @@ (newClient :> freshClient)
           ELSE /\ calls' = [calls EXCEPT ![i].pc = "closing", ![i].stale = TRUE]
                /\ clients' = closed(clients, cachedClient)
    /\ UNCHANGED <<cachedClient, connFrame>>

\* the close returned (errors swallowed): cachedClient = null; cachedDb = null;
\* then new MongoClient(...).connect()
CloseReturns ==
    /\ \E i \in CallIds :
        /\ calls[i].pc = "closing"
        /\ cachedClient' = "null"
        /\ calls' = [calls EXCEPT ![i].pc = "connect", ![i].client = newClient]
        /\ clients' = clients @@ (newClient :> freshClient)
    /\ UNCHANGED connFrame

\* client.connect() resolved: cachedClient = client; return { client, db }
ConnectResolves ==
    /\ \E i \in CallIds :
        /\ calls[i].pc = "connect"
        /\ clients' = [clients EXCEPT ![calls[i].client].open = TRUE]
        /\ cachedClient' = calls[i].client
        /\ calls' = [calls EXCEPT ![i].pc = "use"]
    /\ UNCHANGED connFrame

\* client.connect() rejected: connectToDatabase throws
ConnectRejects ==
    /\ \E i \in CallIds :
        /\ calls[i].pc = "connect"
        /\ calls' = [calls EXCEPT ![i].pc = "threw"]
    /\ UNCHANGED <<cachedClient, clients, connFrame>>

\* the caller is done with the client: a route ends with
\* if (shouldCloseClient()) await client.close(); the scheduler keeps it
HandlerEnds ==
    /\ \E i \in CallIds, routeCloses \in BOOLEAN :
        /\ calls[i].pc = "use"
        /\ calls' = [calls EXCEPT ![i].pc = "end"]
        /\ IF routeCloses /\ ~isVercelServerless /\ calls[i].client # "null"
           THEN clients' = closed(clients, calls[i].client)
           ELSE UNCHANGED clients
    /\ UNCHANGED <<cachedClient, connFrame>>

ConnNext ==
    \/ CallEnter
    \/ PingResolves
    \/ PingFails
    \/ CloseReturns
    \/ ConnectResolves
    \/ ConnectRejects
    \/ HandlerEnds

ConnSpec == ConnInit /\ [][ConnNext]_vars

\* the call returned a connection to its caller
Returned(i) == calls[i].pc \in {"use", "end"}

\* C14: a call whose probe of the cached connection failed returns a newly
\* created connection, and the stale connection is closed exactly once over
\* its whole life, closes by request handlers counted.
C14_StaleClosedOnce ==
    \A i \in CallIds :
        (calls[i].stale /\ Returned(i)) =>
            /\ calls[i].client \notin {"null", calls[i].pinged}
            /\ clients[calls[i].pinged].closes = 1

OpenClients == {c \in DOMAIN clients : clients[c].open}

\* C15: at every moment at most one connection created by connectToDatabase
\* is open, also when calls interleave at their awaits.
C15_AtMostOneOpen == Cardinality(OpenClients) <= 1

(***************************************************************************)
(* POST /api/schedule-email, the scheduleEmail helper, and authenticateJWT *)
(* in front of the two schedule routes.  Of POST /api/schedule-sequence    *)
(* this part follows the middleware and the initialisation guard; the body *)
(* of that handler is the subject of Spec above.                           *)
(***************************************************************************)
\* largest delay a request asks for
MaxDelay == 2

Delays == 0..MaxDelay
Units == {"minutes", "hours", "days", "weeks"}

\* authHeader.split(' '): the pieces of a text between separators
RECURSIVE split(_, _)
split(s, sep) ==
    IF \A i \in 1..Len(s) : s[i] # sep
    THEN <<s>>
    ELSE LET i == CHOOSE k \in 1..Len(s) : s[k] = sep /\ \A m \in 1..(k - 1) : s[m] # sep
         IN <<SubSeq(s, 1, i - 1)>> \o split(SubSeq(s, i + 1, Len(s)), sep)

\* tokens a client may present: one signed with the secret and in date, one
\* signed but expired a minute before the request, one with a bad signature
TokenValid == <<"v", "1">>
TokenExpired == <<"x", "1">>
TokenForged == <<"f", "1">>
SignedTokens == {TokenValid, TokenExpired}
expOf(token) == IF token = TokenValid THEN Now0 + SecPerHour ELSE Now0 - SecPerMinute

Bearer == <<"B", "e", "a", "r", "e", "r">>
Basic == <<"B", "a", "s", "i", "c">>
NoHeader == <<>>
HeaderOf(scheme, token) == scheme \o <<" ">> \o token
Headers ==
    {NoHeader, TokenValid, HeaderOf(Bearer, <<>>), HeaderOf(Basic, TokenValid)}
        \cup {HeaderOf(Bearer, t) : t \in {TokenValid, TokenExpired, TokenForged}}

\* const token = authHeader.split(' ')[1]: no element when undefined
tokenOf(authHeader) ==
    LET pieces == split(authHeader, " ") IN
    IF Len(pieces) >= 2 THEN <<pieces[2]>> ELSE <<>>

\* a verification that does not look at the expiry
jwtVerifyIgnoringExpiry(token, t) ==
    /\ token # <<>>
    /\ token[1] \in SignedTokens

\* jwt.verify(token, secret, callback) calls back without an error
jwtVerify(token, t) ==
    /\ token # <<>>
    /\ token[1] \in SignedTokens
    /\ t < expOf(token[1])

\* the status authenticateJWT answers with, 0 when it calls next()
authenticateJWT(authHeader, t) ==
    IF authHeader = <<>> THEN 401
    ELSE IF jwtVerify(tokenOf(authHeader), t) THEN 0
    ELSE 403

EmailRequest(route, header, delay, unit) ==
    [route |-> route, authorization |-> header, to |-> "lead@example.com",
     delay |-> delay, unit |-> unit, sendNow |-> FALSE, sequence |-> <<>>]

SequenceRequest(header, sendNow) ==
    [route |-> "schedule-sequence", authorization |-> header, to |-> "",
     delay |-> 0, unit |-> "", sendNow |-> sendNow, sequence |-> <<ColdWithRecipient>>]

\* the requests followed: every header on both routes, every delay and unit
\* on schedule-email and on the helper (which is called without a header)
EmailRequests ==
    {EmailRequest("schedule-email", h, 1, "hours") : h \in Headers}
        \cup {EmailRequest("schedule-email", HeaderOf(Bearer, TokenValid), d, u) :
                  d \in Delays, u \in Units}
        \cup {EmailRequest("scheduleEmail", NoHeader, d, u) : d \in Delays, u \in Units}
        \cup {SequenceRequest(h, n) : h \in Headers, n \in BOOLEAN}

\* credentials and transporter as startup leaves them: initializeTransporter()
\* creates one only with credentials, and createTransport may have thrown
MailStates ==
    {[emailCreds |-> FALSE, transporter |-> "null"],
     [emailCreds |-> TRUE, transporter |-> "transporter"],
     [emailCreds |-> TRUE, transporter |-> "null"]}

EmailInit ==
    /\ now = Now0
    /\ reqTime = Now0
    /\ req \in EmailRequests
    /\ \E s \in ServerStates :
        /\ mongoUri = s.mongoUri
        /\ cachedClient = s.cachedClient
        /\ agenda = s.agenda
        /\ agendaInitialized = s.agendaInitialized
    /\ \E m \in MailStates :
        /\ emailCreds = m.emailCreds
        /\ transporter = m.transporter
    /\ emailSendTime = 0
    /\ sentMail = <<>>
    /\ sendRuns = <<>>
    /\ jobs = <<>>
    /\ slowAwaits = 0
    /\ pc = IF req.route = "scheduleEmail" THEN "emailEntry" ELSE "auth"
    /\ idx = 1
    /\ hasValidEmails = FALSE
    /\ hasMissingRecipients = FALSE
    /\ options = <<>>
    /\ currentDate = 0
    /\ foundValidDay = FALSE
    /\ daysChecked = 0
    /\ scheduledEmails = <<>>
    /\ outcome = <<>>
    /\ response = NoResponse
    /\ MonitorIdle
    /\ ConnIdle
    /\ InitIdle

\* what the schedule-email handler and its middleware never write
emailFrame == <<mongoUri, req, reqTime, idx, hasValidEmails, hasMissingRecipients, options,
                currentDate, foundValidDay, daysChecked, scheduledEmails, monitorVars,
                connVars, initVars, userVars, emailCreds, sentMail, sendRuns>>

\* a step of the handler recorded for the properties (history)
Log(entry) == outcome' = Append(outcome, entry)

\* the middleware in front of the route: 401, 403, or next()
Authenticate ==
    /\ pc = "auth"
    /\ LET status == authenticateJWT(req.authorization, now) IN
        IF status = 401
        THEN Respond(401, [error |-> "Authentication token is missing"])
        ELSE IF status = 403
        THEN Respond(403, [error |-> "Token is invalid or expired"])
        ELSE /\ pc' = IF req.route = "schedule-sequence" THEN "guard" ELSE "emailEntry"
             /\ UNCHANGED response
    /\ UNCHANGED <<serverVars, clockVars, jobs, outcome, transporter, emailSendTime,
                   emailFrame>>

IsRoute == req.route = "schedule-email"
IsHelper == req.route = "scheduleEmail"

MongoNotConnectedError == "MongoNotConnectedError"
OtherError == "Error"
ScheduleErrors == {"none", MongoNotConnectedError, OtherError}

\* the handler's outer catch; the helper just throws
EmailFails(message) ==
    IF IsRoute
    THEN Respond(500, [error |-> "Failed to schedule email", details |-> message])
    ELSE response' = [status |-> 0, body |-> [thrown |-> message]] /\ pc' = "done"

addHours(t, n) == t + n * SecPerHour

\* a send time that takes every unit for minutes
delayedSendTimeInMinutes(t, delay, unit) == addMinutes(t, delay)

\* let sendTime = new Date(); then setMinutes / setHours / setDate by unit
delayedSendTime(t, delay, unit) ==
    IF unit = "minutes" THEN addMinutes(t, delay)
    ELSE IF unit = "hours" THEN addHours(t, delay)
    ELSE IF unit = "days" THEN addDays(t, delay)
    ELSE t

\* agenda.schedule(sendTime, 'send email', {to, subject, body, userId})
emailJob(t, to) == [name |-> "send email", nextRunAt |-> t, to |-> to]

\* sendTime is computed, at instant t, and the handler goes on to its try block
ComputeSendTime(t) ==
    /\ emailSendTime' = delayedSendTime(t, req.delay, req.unit)
    /\ pc' = "emailConnect"
    /\ UNCHANGED response

\* schedule-email without EMAIL_USER or EMAIL_PASS: 500 at once
EmailCredsMissing ==
    /\ pc = "emailEntry"
    /\ IsRoute /\ ~emailCreds
    /\ Respond(500, [error |-> "Email configuration is missing",
                     details |-> "The server is not configured with valid email credentials"])
    /\ UNCHANGED <<serverVars, clockVars, jobs, outcome, transporter, emailSendTime,
                   emailFrame>>

\* if (!agenda || !agendaInitialized) is false
EmailGuardReady ==
    /\ pc = "emailEntry"
    /\ IsHelper \/ emailCreds
    /\ agenda = "instance" /\ agendaInitialized
    /\ ComputeSendTime(now)
    /\ Log([kind |-> "sendTime", base |-> now])
    /\ UNCHANGED <<serverVars, clockVars, jobs, transporter, emailFrame>>

\* await initializeAgenda(); if (!agenda) 503 (the helper: throw)
EmailGuardInitialize ==
    /\ pc = "emailEntry"
    /\ IsHelper \/ emailCreds
    /\ ~(agenda = "instance" /\ agendaInitialized)
    /\ \E pingOk, connectOk, startOk, slow \in BOOLEAN :
        LET r == initializeAgenda(pingOk, connectOk, startOk) IN
        /\ Elapse(slow)
        /\ cachedClient' = r.cachedClient
        /\ agenda' = r.agenda
        /\ agendaInitialized' = r.agendaInitialized
        /\ IF r.threw
           THEN /\ EmailFails("initializeAgenda failed")
                /\ Log([kind |-> "initialize", threw |-> TRUE])
                /\ UNCHANGED emailSendTime
           ELSE IF r.agenda = "undefined"
           THEN /\ IF IsRoute
                   THEN Respond(503, [error |-> "Scheduling service is not available"])
                   ELSE EmailFails("Scheduling service is not available")
                /\ Log([kind |-> "initialize", threw |-> FALSE])
                /\ UNCHANGED emailSendTime
           ELSE /\ ComputeSendTime(now')
                /\ outcome' = outcome \o <<[kind |-> "initialize", threw |-> FALSE],
                                           [kind |-> "sendTime", base |-> now']>>
    /\ UNCHANGED <<jobs, transporter, emailFrame>>

\* try { await connectToDatabase(); if (!transporter) initializeTransporter() }
\* createOk: nodemailer.createTransport does not throw
EmailConnect ==
    /\ pc = "emailConnect"
    /\ \E pingOk, connectOk, createOk, slow \in BOOLEAN :
        LET c == connectToDatabase(pingOk, connectOk) IN
        /\ Elapse(slow)
        /\ cachedClient' = c.cachedClient
        /\ IF c.threw
           THEN /\ EmailFails("connect failed")
                /\ Log([kind |-> "connect", err |-> OtherError])
                /\ UNCHANGED transporter
           ELSE IF IsRoute /\ transporter = "null" /\ ~(emailCreds /\ createOk)
           THEN /\ Respond(500, [error |-> "Failed to initialize email service"])
                /\ Log([kind |-> "transporter", err |-> OtherError])
                /\ UNCHANGED transporter
           ELSE /\ transporter' = IF IsRoute THEN "transporter" ELSE transporter
                /\ pc' = "emailSchedule"
                /\ UNCHANGED <<response, outcome>>
    /\ UNCHANGED <<agenda, agendaInitialized, jobs, emailSendTime, emailFrame>>

\* await agenda.schedule(...): the job is persisted, or the call throws
EmailSchedule ==
    /\ pc = "emailSchedule"
    /\ \E err \in ScheduleErrors, slow \in BOOLEAN :
        /\ Elapse(slow)
        /\ Log([kind |-> "schedule", err |-> err])
        /\ IF err = "none"
           THEN /\ jobs' = Append(jobs, emailJob(emailSendTime, req.to))
                /\ IF IsRoute
                   THEN pc' = "emailVerify" /\ UNCHANGED response
                   ELSE /\ response' = [status |-> 0,
                                        body |-> [scheduledFor |-> emailSendTime]]
                        /\ pc' = "done"
           ELSE /\ UNCHANGED jobs
                /\ IF err = MongoNotConnectedError
                   THEN pc' = "emailRetry" /\ UNCHANGED response
                   ELSE EmailFails("schedule failed")
    /\ UNCHANGED <<serverVars, transporter, emailSendTime, emailFrame>>

VerifyOutcomes == {"found", "notFound", MongoNotConnectedError, OtherError}

\* schedule-email: connectToDatabase() again and findOne({_id: job.attrs._id})
EmailVerify ==
    /\ pc = "emailVerify"
    /\ \E pingOk, connectOk, slow \in BOOLEAN, found \in VerifyOutcomes :
        LET c == connectToDatabase(pingOk, connectOk)
            result == IF c.threw THEN OtherError ELSE found
        IN
        /\ Elapse(slow)
        /\ cachedClient' = c.cachedClient
        /\ Log([kind |-> "verify", err |-> result])
        /\ IF result = "found"
           THEN Respond(200, [message |-> "Email scheduled successfully",
                              scheduledFor |-> emailSendTime,
                              jobId |-> Len(jobs)])
           ELSE IF result = "notFound"
           THEN Respond(500, [error |-> "Failed to verify job was scheduled"])
           ELSE IF result = MongoNotConnectedError
           THEN pc' = "emailRetry" /\ UNCHANGED response
           ELSE EmailFails("verification failed")
    /\ UNCHANGED <<agenda, agendaInitialized, jobs, transporter, emailSendTime, emailFrame>>

\* catch (err) with err.name === 'MongoNotConnectedError':
\* await initializeAgenda(); await agenda.schedule(...) once more
EmailRetry ==
    /\ pc = "emailRetry"
    /\ \E pingOk, connectOk, startOk, slow \in BOOLEAN, err \in ScheduleErrors :
        LET r == initializeAgenda(pingOk, connectOk, startOk) IN
        /\ Elapse(slow)
        /\ cachedClient' = r.cachedClient
        /\ agenda' = r.agenda
        /\ agendaInitialized' = r.agendaInitialized
        /\ IF r.threw
           THEN /\ EmailFails("initializeAgenda failed")
                /\ Log([kind |-> "reinitialize", threw |-> TRUE,
                      created |-> r.created])
                /\ UNCHANGED jobs
           ELSE /\ outcome' = outcome \o <<[kind |-> "reinitialize", threw |-> FALSE,
                                            created |-> r.created],
                                           [kind |-> "schedule", err |-> err]>>
                /\ IF err = "none"
                   THEN /\ jobs' = Append(jobs, emailJob(emailSendTime, req.to))
                        /\ IF IsRoute
                           THEN Respond(200,
                                  [message |-> "Email scheduled successfully after reconnection",
                                   scheduledFor |-> emailSendTime,
                                   jobId |-> Len(jobs')])
                           ELSE /\ response' = [status |-> 0,
                                                body |-> [scheduledFor |-> emailSendTime,
                                                          reconnected |-> TRUE]]
                                /\ pc' = "done"
                   ELSE /\ UNCHANGED jobs
                        /\ EmailFails("schedule failed")
    /\ UNCHANGED <<transporter, emailSendTime, emailFrame>>

EmailNext ==
    \/ Authenticate
    \/ EmailCredsMissing
    \/ EmailGuardReady
    \/ EmailGuardInitialize
    \/ EmailConnect
    \/ EmailSchedule
    \/ EmailVerify
    \/ EmailRetry
    \/ GuardReady
    \/ GuardInitialize

EmailSpec == EmailInit /\ [][EmailNext]_vars

(***************************************************************************)
(* Properties of schedule-email, scheduleEmail and the middleware.         *)
(***************************************************************************)
\* the instant new Date() was read for sendTime
SendBase == outcome[CHOOSE k \in Kinds("sendTime") : TRUE].base

\* the scheduler was initialised when the request arrived: the guard awaited nothing
AvailableOnArrival == outcome # <<>> /\ outcome[1].kind = "sendTime"

\* seconds in one unit of delay; none for a unit the handler does not know
SecondsPer(unit) ==
    CASE unit = "minutes" -> 60
      [] unit = "hours" -> 60 * 60
      [] unit = "days" -> 24 * 60 * 60
      [] OTHER -> 0

\* no store, scheduler or transporter call of the request failed
NoFailure ==
    \A k \in 1..Len(outcome) :
        /\ outcome[k].kind \in {"initialize", "reinitialize"} => ~outcome[k].threw
        /\ outcome[k].kind \in {"connect", "transporter", "schedule", "verify"}
               => outcome[k].err \in {"none", "found"}

Rejected == response.status \in {401, 403}

\* C16: schedule-email and scheduleEmail with delay d and a unit of minutes,
\* hours or days persist a 'send email' job whose run time is the request
\* time plus d units; a unit outside that set adds no delay; with credentials
\* configured and nothing failing, exactly one job is persisted and the
\* answer is 200 'Email scheduled successfully' with that run time.
C16_RunTimeIsDelay ==
    (IsRoute \/ IsHelper) =>
        /\ \A j \in 1..Len(jobs) :
            /\ jobs[j].name = "send email"
            /\ jobs[j].to = req.to
            /\ jobs[j].nextRunAt = SendBase + req.delay * SecondsPer(req.unit)
        /\ Kinds("sendTime") # {} =>
            /\ SendBase >= reqTime
            /\ AvailableOnArrival => SendBase = reqTime
            /\ req.unit \notin {"minutes", "hours", "days"} => emailSendTime = SendBase
        /\ (Done /\ ~Rejected /\ NoFailure /\ (IsHelper \/ emailCreds)) =>
            /\ Len(jobs) = 1
            /\ IF IsRoute
               THEN /\ response.status = 200
                    /\ response.body.message = "Email scheduled successfully"
                    /\ response.body.scheduledFor = jobs[1].nextRunAt
               ELSE response.body = [scheduledFor |-> jobs[1].nextRunAt]

\* schedule-email with delay 2 and unit days answered 200, the job two days
\* after the arrival of the request
C16_Witness ==
    /\ IsRoute /\ Done
    /\ req.delay = 2 /\ req.unit = "days"
    /\ response.status = 200
    /\ response.body.message = "Email scheduled successfully"
    /\ Len(jobs) = 1
    /\ jobs[1].nextRunAt = reqTime + 2 * SecPerDay

\* the handler got as far as its initialisation guard
ReachedGuard == ~Rejected /\ (IsRoute => emailCreds)

\* C17: when the scheduler cannot be initialised, schedule-email and
\* schedule-sequence answer 503 'Scheduling service is not available' (the
\* helper fails with that error), not a generic failure, and create no job.
C17_ServiceUnavailable ==
    (Done /\ ReachedGuard /\ ~agendaInitialized) =>
        /\ jobs = <<>>
        /\ IF IsHelper
           THEN response.body = [thrown |-> "Scheduling service is not available"]
           ELSE /\ response.status = 503
                /\ response.body.error = "Scheduling service is not available"

\* C18: for one email agenda.schedule is called at most twice, and a second
\* call only follows a first call that failed with MongoNotConnectedError and
\* one initializeAgenda attempt; nothing is retried after that.
C18_SingleRetry ==
    /\ Cardinality(Kinds("schedule")) <= 2
    /\ \A k1, k2 \in Kinds("schedule") :
        k1 < k2 =>
            /\ outcome[k1].err = MongoNotConnectedError
            /\ \E i \in Kinds("reinitialize") : k1 < i /\ i < k2

\* headers whose token is missing, forged or expired
InvalidHeaders ==
    {TokenValid, HeaderOf(Bearer, <<>>), HeaderOf(Bearer, TokenExpired),
     HeaderOf(Bearer, TokenForged)}

\* C19: the schedule routes answer 401 to a request without an Authorization
\* header and 403 to one with an invalid or expired token; in both cases the
\* handler is not run: no job is created and the scheduler, the connection
\* and the transporter are left as they were.
C19_AuthRequired ==
    /\ []((~IsHelper /\ pc # "auth") =>
            /\ req.authorization = NoHeader =>
                /\ Done
                /\ response = [status |-> 401,
                               body |-> [error |-> "Authentication token is missing"]]
            /\ req.authorization \in InvalidHeaders =>
                /\ Done
                /\ response = [status |-> 403,
                               body |-> [error |-> "Token is invalid or expired"]]
            /\ Rejected => (jobs = <<>> /\ outcome = <<>> /\ emailSendTime = 0))
    /\ [][(response'.status \in {401, 403})
            => UNCHANGED <<cachedClient, agenda, agendaInitialized, transporter, jobs>>]_vars

\* a schedule-sequence request with an expired token, answered 403 while the
\* scheduler is still uninitialised
C19_Witness ==
    /\ req.route = "schedule-sequence"
    /\ req.authorization = HeaderOf(Bearer, TokenExpired)
    /\ Done
    /\ response.status = 403
    /\ agenda = "undefined"
    /\ jobs = <<>>

(***************************************************************************)
(* The 'send email' job handler.  Agenda runs up to defaultConcurrency     *)
(* jobs at once; their handlers interleave at the awaits of verify and     *)
(* sendMail and share the one transporter.                                 *)
(***************************************************************************)
\* jobs whose handler runs during the life followed
MaxRuns == 3

RunIds == 1..MaxRuns

QueuedRun == [pc |-> "queued", events |-> <<>>]

SendInit ==
    /\ now = Now0
    /\ mongoUri = TRUE
    /\ cachedClient = "client"
    /\ agenda = "instance"
    /\ agendaInitialized = TRUE
    /\ slowAwaits = 0
    /\ pc = "serving"
    /\ RequestIdle
    /\ MonitorIdle
    /\ ConnIdle
    /\ InitIdle
    /\ \E m \in MailStates :
        /\ emailCreds = m.emailCreds
        /\ transporter = m.transporter
    /\ emailSendTime = 0
    /\ sentMail = <<>>
    /\ sendRuns = [r \in RunIds |-> QueuedRun]

\* what the job handler never writes
sendFrame == <<now, slowAwaits, pc, mongoUri, serverVars, requestVars, monitorVars, connVars, initVars, userVars,
               emailSendTime, emailCreds>>

\* initializeTransporter(): a new transporter when the credentials are set
\* and createTransport does not throw, else the old value stays
initializeTransporter(createOk) ==
    IF emailCreds /\ createOk THEN "transporter" ELSE transporter

\* the run goes on with one more event, at position p
RunStep(r, p, event) ==
    sendRuns' = [sendRuns EXCEPT ![r] = [pc |-> p, events |-> Append(@.events, event)]]

\* the handler starts: if (!transporter) initializeTransporter(), throwing
\* when that returns false; then transporter.verify is called.  A throw
\* lands in the catch, which calls initializeTransporter() again.
RunStart ==
    /\ \E r \in RunIds, createOk, recreateOk \in BOOLEAN :
        /\ sendRuns[r].pc = "queued"
        /\ \A k \in 1..(r - 1) : sendRuns[k].pc # "queued"
        /\ IF transporter # "null"
           THEN RunStep(r, "verify", "verifyCalled") /\ UNCHANGED transporter
           ELSE IF emailCreds /\ createOk
           THEN RunStep(r, "verify", "verifyCalled") /\ transporter' = "transporter"
           ELSE /\ RunStep(r, "failed", "initializeFailed")
                /\ transporter' = initializeTransporter(recreateOk)
    /\ UNCHANGED <<sentMail, sendFrame>>

\* a handler that sends although the verification failed
VerifyFailsSendsAnyway ==
    /\ \E r \in RunIds :
        /\ sendRuns[r].pc = "verify"
        /\ sendRuns' = [sendRuns EXCEPT ![r] = [pc |-> "send",
                            events |-> @.events \o <<"verifyFailed", "sendMailCalled">>]]
        /\ sentMail' = Append(sentMail, [run |-> r])
    /\ UNCHANGED <<transporter, sendFrame>>

\* verify calls back with an error: reject, catch, initializeTransporter(), throw
VerifyFails ==
    /\ \E r \in RunIds, recreateOk \in BOOLEAN :
        /\ sendRuns[r].pc = "verify"
        /\ RunStep(r, "failed", "verifyFailed")
        /\ transporter' = initializeTransporter(recreateOk)
    /\ UNCHANGED <<sentMail, sendFrame>>

\* verify calls back without an error: resolve, then transporter.sendMail(...)
VerifySucceeds ==
    /\ \E r \in RunIds :
        /\ sendRuns[r].pc = "verify"
        /\ sendRuns' = [sendRuns EXCEPT ![r] = [pc |-> "send",
                            events |-> @.events \o <<"verifyOk", "sendMailCalled">>]]
        /\ sentMail' = Append(sentMail, [run |-> r])
    /\ UNCHANGED <<transporter, sendFrame>>

\* sendMail resolved: return info, the job completes
SendSucceeds ==
    /\ \E r \in RunIds :
        /\ sendRuns[r].pc = "send"
        /\ RunStep(r, "completed", "sent")
    /\ UNCHANGED <<transporter, sentMail, sendFrame>>

\* sendMail rejected: catch, initializeTransporter(), throw
SendFails ==
    /\ \E r \in RunIds, recreateOk \in BOOLEAN :
        /\ sendRuns[r].pc = "send"
        /\ RunStep(r, "failed", "sendFailed")
        /\ transporter' = initializeTransporter(recreateOk)
    /\ UNCHANGED <<sentMail, sendFrame>>

SendNext ==
    \/ RunStart
    \/ VerifyFails
    \/ VerifySucceeds
    \/ SendSucceeds
    \/ SendFails

SendSpec == SendInit /\ [][SendNext]_vars

\* the positions of an event in a run
EventsAt(r, event) == {k \in 1..Len(sendRuns[r].events) : sendRuns[r].events[k] = event}

\* C20: in every run of the handler sendMail is called only after verify
\* succeeded in that run; when the transporter cannot be initialised or the
\* verification fails no mail is sent for the run and the handler throws:
\* the job fails and is not completed.
C20_VerifyBeforeSend ==
    /\ \A r \in RunIds :
        /\ \A k \in EventsAt(r, "sendMailCalled") :
               \E v \in EventsAt(r, "verifyOk") : v < k
        /\ (EventsAt(r, "initializeFailed") \cup EventsAt(r, "verifyFailed") # {}) =>
            /\ EventsAt(r, "sendMailCalled") = {}
            /\ \A m \in 1..Len(sentMail) : sentMail[m].run # r
            /\ sendRuns[r].pc = "failed"
        /\ sendRuns[r].pc = "completed" =>
               sendRuns[r].events = <<"verifyCalled", "verifyOk", "sendMailCalled", "sent">>
    /\ \A m \in 1..Len(sentMail) : EventsAt(sentMail[m].run, "verifyOk") # {}

\* one run failed in verification without sending while another completed
C20_Witness ==
    \E r1, r2 \in RunIds :
        /\ sendRuns[r1].pc = "failed"
        /\ EventsAt(r1, "verifyFailed") # {}
        /\ sendRuns[r2].pc = "completed"
        /\ Len(sentMail) = 1

(***************************************************************************)
(* Properties of the sequence handler, continued.                          *)
(***************************************************************************)
OtherItemsOf == {i \in 1..Len(req.sequence) : req.sequence[i].type # "coldEmail"}

\* C22: only coldEmail items produce a send: in both modes no job and no
\* entry of scheduledEmails belongs to an item of another type, and the step
\* that passes such an item leaves the job store, the result list, the day
\* cursor and the clock as they were, so that a wait's delay and unit reach
\* no scheduledFor.
C22_OnlyColdEmailSends ==
    /\ [](/\ \A j \in 1..Len(jobs) : jobs[j].item \notin OtherItemsOf
          /\ \A e \in Entries : scheduledEmails[e].item \notin OtherItemsOf)
    /\ [][(pc \in {"immLoop", "defLoop"} /\ InLoop /\ idx \in OtherItemsOf) =>
              /\ idx' = idx + 1
              /\ UNCHANGED <<jobs, scheduledEmails, currentDate, now, options>>]_vars

\* a deferred request answered with two emails around a two-day wait
C22_Witness ==
    /\ Done /\ Deferred /\ response.status = 200
    /\ Len(req.sequence) = 3
    /\ req.sequence[2] = WaitDelayOf(2, "days")
    /\ Len(scheduledEmails) = 2
    /\ DayIndex(scheduledEmails[2].scheduledFor)
           = DayIndex(scheduledEmails[1].scheduledFor) + 1

\* the items an outcome of the given kinds was noted for
ItemsNoted(kinds) == {outcome[k].item : k \in {n \in 1..Len(outcome) : outcome[n].kind \in kinds}}

\* C23: in immediate mode the result list holds exactly the items whose job
\* was persisted, one entry per successful agenda.schedule and none for a
\* failed one, in input order; a failed schedule does not end the loop: every
\* item with a recipient before the loop's position was attempted, and once
\* the loop is entered the request is answered with the list, not with 500.
C23_ImmediateListIsPersisted ==
    Immediate =>
        /\ Len(jobs) = Len(scheduledEmails)
        /\ \A k \in Entries :
            /\ jobs[k].item = scheduledEmails[k].item
            /\ jobs[k].nextRunAt = scheduledEmails[k].scheduledFor
            /\ jobs[k].to = scheduledEmails[k].email
        /\ \A i, j \in Entries : i < j => scheduledEmails[i].item < scheduledEmails[j].item
        /\ {scheduledEmails[k].item : k \in Entries} = ItemsNoted({"scheduled"})
        /\ ItemsNoted({"scheduled"}) \cap ItemsNoted({"failed"}) = {}
        /\ pc \in {"immLoop", "done"} /\ response.status # 500 =>
               {i \in EligibleItems : i < idx} = ItemsNoted({"scheduled", "failed"})
        /\ Done /\ response.status = 500 => outcome = <<>>
        /\ Done /\ response.status \in {200, 400} => idx = Len(req.sequence) + 1

(***************************************************************************)
(* initializeAgenda call by call.  Startup and the scheduling routes call  *)
(* it; a call awaits connectToDatabase() and agenda.start(), and other     *)
(* calls run in between.  The variable agenda refers to the instance       *)
(* created last.                                                           *)
(***************************************************************************)
\* calls of initializeAgenda followed
MaxInits == 3

InitIds == 1..MaxInits

IdleInit == [pc |-> "idle", inst |-> 0]

AgendaInit ==
    /\ now = Now0
    /\ mongoUri \in BOOLEAN
    /\ cachedClient = "null"
    /\ agenda = "undefined"
    /\ agendaInitialized = FALSE
    /\ slowAwaits = 0
    /\ pc = "serving"
    /\ RequestIdle
    /\ MonitorIdle
    /\ ConnIdle
    /\ MailIdle
    /\ agendas = <<>>
    /\ inits = [i \in InitIds |-> IdleInit]
    /\ users = <<>>
    /\ regs = <<>>

\* what initializeAgenda never writes
initFrame == <<clockVars, pc, mongoUri, requestVars, monitorVars, connVars, mailVars, userVars>>

InitAt(i, p) == inits' = [inits EXCEPT ![i].pc = p]

\* the Agenda instances that were started and are polling
Polling == {k \in 1..Len(agendas) : agendas[k].started}

\* a call begins: throws without MONGODB_URI, returns the existing instance
\* if (agenda && agendaInitialized), else awaits connectToDatabase()
InitEnter ==
    /\ \E i \in DOMAIN inits :
        /\ inits[i].pc = "idle"
        /\ \A k \in DOMAIN inits : k < i => inits[k].pc # "idle"
        /\ IF ~mongoUri THEN InitAt(i, "threw")
           ELSE IF agenda # "undefined" /\ agendaInitialized THEN InitAt(i, "returned")
           ELSE InitAt(i, "connecting")
    /\ UNCHANGED <<serverVars, agendas, initFrame>>

\* connectToDatabase() settled: agenda = new Agenda(...), define, start() is
\* called; or the catch: agendaInitialized = false, throw
InitConnect ==
    /\ \E i \in DOMAIN inits, pingOk, connectOk \in BOOLEAN :
        LET c == connectToDatabase(pingOk, connectOk) IN
        /\ inits[i].pc = "connecting"
        /\ cachedClient' = c.cachedClient
        /\ IF c.threw
           THEN /\ agendaInitialized' = FALSE
                /\ InitAt(i, "threw")
                /\ UNCHANGED <<agenda, agendas>>
           ELSE /\ agenda' = "instance"
                /\ agendas' = Append(agendas, [started |-> FALSE])
                /\ inits' = [inits EXCEPT ![i] = [pc |-> "starting", inst |-> Len(agendas) + 1]]
                /\ UNCHANGED agendaInitialized
    /\ UNCHANGED initFrame

\* await agenda.start() resolved: the instance polls; agendaInitialized = true
InitStartResolves ==
    /\ \E i \in DOMAIN inits :
        /\ inits[i].pc = "starting"
        /\ agendas' = [agendas EXCEPT ![inits[i].inst].started = TRUE]
        /\ agendaInitialized' = TRUE
        /\ InitAt(i, "returned")
    /\ UNCHANGED <<cachedClient, agenda, initFrame>>

\* await agenda.start() rejected: catch, agendaInitialized = false, throw
InitStartRejects ==
    /\ \E i \in DOMAIN inits :
        /\ inits[i].pc = "starting"
        /\ agendaInitialized' = FALSE
        /\ InitAt(i, "threw")
    /\ UNCHANGED <<cachedClient, agenda, agendas, initFrame>>

AgendaNext ==
    \/ InitEnter
    \/ InitConnect
    \/ InitStartResolves
    \/ InitStartRejects

AgendaSpec == AgendaInit /\ [][AgendaNext]_vars

\* C24: at any time at most one Agenda instance has been started and is
\* polling, also when calls of initializeAgenda overlap and when a failed
\* initialisation is retried.
C24_OneSchedulerInstance == Cardinality(Polling) <= 1

(***************************************************************************)
(* An immediate-mode request that arrives while another caller's           *)
(* initializeAgenda (startup, or another request) is awaiting its          *)
(* connectToDatabase().                                                    *)
(***************************************************************************)
OverlapInit ==
    /\ now = Now0
    /\ req \in {r \in SequenceFamily : r.sendNow}
    /\ mongoUri = TRUE
    /\ cachedClient = "null"
    /\ agenda = "undefined"
    /\ agendaInitialized = FALSE
    /\ jobs = <<>>
    /\ reqTime = Now0
    /\ slowAwaits = 0
    /\ pc = "guard"
    /\ idx = 1
    /\ hasValidEmails = FALSE
    /\ hasMissingRecipients = FALSE
    /\ options = <<>>
    /\ currentDate = 0
    /\ foundValidDay = FALSE
    /\ daysChecked = 0
    /\ scheduledEmails = <<>>
    /\ outcome = <<>>
    /\ response = NoResponse
    /\ MonitorIdle
    /\ ConnIdle
    /\ MailIdle
    /\ agendas = <<>>
    /\ inits = <<[pc |-> "connecting", inst |-> 0]>>
    /\ users = <<>>
    /\ regs = <<>>

OverlapNext ==
    \/ GuardReady
    \/ GuardInitialize
    \/ ImmConnect
    \/ ImmOther
    \/ ImmMissingRecipient
    \/ ImmSchedule
    \/ ImmScheduleError
    \/ ImmScheduleRetry
    \/ ImmRespond
    \/ InitConnect
    \/ InitStartResolves
    \/ InitStartRejects

OverlapSpec == OverlapInit /\ [][OverlapNext]_vars

\* C25: when agenda.schedule failed with MongoNotConnectedError, the
\* initializeAgenda call before the retry creates the scheduler anew, so the
\* retry does not go to the Agenda instance that just failed.
C25_RetryOnNewScheduler ==
    \A k \in Kinds("reinitialize") : ~outcome[k].threw => outcome[k].created

(***************************************************************************)
(* The connection manager after a startup that succeeded: the scheduler    *)
(* was constructed on the database of the cached client, and requests      *)
(* follow.                                                                 *)
(***************************************************************************)
\* const { db } = await connectToDatabase(); new Agenda({ mongo: db, ... })
AgendaClient == clientName(1)

ServingInit ==
    /\ now = Now0
    /\ mongoUri = TRUE
    /\ cachedClient = AgendaClient
    /\ agenda = "instance"
    /\ agendaInitialized = TRUE
    /\ slowAwaits = 0
    /\ pc = "serving"
    /\ RequestIdle
    /\ MonitorIdle
    /\ MailIdle
    /\ InitIdle
    /\ isVercelServerless \in BOOLEAN
    /\ clients = (AgendaClient :> [open |-> TRUE, closes |-> 0])
    /\ calls = [i \in CallIds |-> IdleCall]

ServingSpec == ServingInit /\ [][ConnNext]_vars

\* a request handler ends (and closes its client if the route does so)
HandlerEndStep == \E i \in CallIds : calls[i].pc = "use" /\ calls'[i].pc = "end"

\* C26: while the scheduler is initialised no request handler closes the
\* connection its Agenda instance was constructed on, in serverless and
\* non-serverless mode alike.
C26_SchedulerConnectionKept ==
    [][(agendaInitialized /\ HandlerEndStep) =>
           clients'[AgendaClient] = clients[AgendaClient]]_vars

\* C27: one POST /api/schedule-email request persists at most one job,
\* whichever step fails, also when the verification read after a successful
\* schedule fails with a connection error.
C27_AtMostOneJob == IsRoute => Len(jobs) <= 1

\* C28: a deferred-mode request that is answered 500 'Failed to schedule
\* sequence' because a schedule call failed leaves no job of the request in
\* the store: the store is as before the request.
C28_FailedRequestLeavesNoJob ==
    (Deferred /\ Done /\ response.status = 500) => jobs = <<>>

\* the request names a non-empty list of weekday names and a start date on a
\* calendar day after the day of the request
StartsLater ==
    /\ Deferred
    /\ req.schedulingOptions # NoOptions
    /\ req.schedulingOptions.days # <<>>
    /\ \A i \in 1..Len(req.schedulingOptions.days) :
           dayMap(toLowerCase(req.schedulingOptions.days[i])) # undefined
    /\ DayIndex(req.schedulingOptions.startDate) > DayIndex(reqTime)

\* C29: in deferred mode with a non-empty list of valid weekday names and a
\* start date at least one calendar day after now, every coldEmail item
\* finds its day within 7 days checked: the 14-day limit is not reached, no
\* item is dropped, and the answer holds exactly one entry per coldEmail item.
C29_EveryItemFindsItsDay ==
    StartsLater =>
        /\ daysChecked <= 7
        /\ Kinds("noEligibleDay") = {}
        /\ Kinds("droppedPast") = {}
        /\ (Done /\ response.status = 200) =>
            /\ Len(response.body.scheduledEmails) = Cardinality(ColdItems)
            /\ {response.body.scheduledEmails[k].item :
                    k \in 1..Len(response.body.scheduledEmails)} = ColdItems

\* a request for Sundays only that starts tomorrow, a Tuesday: both items
\* found their day, the second after seven days checked
C29_Witness ==
    /\ StartsLater /\ Done /\ response.status = 200
    /\ req.schedulingOptions.days = <<sunday>>
    /\ req.schedulingOptions.startDate = StartTomorrow
    /\ Len(scheduledEmails) = 2
    /\ daysChecked = 7

(***************************************************************************)
(* POST /api/register (src/src/server/users.js): requests interleave at    *)
(* the awaits of connect, findOne, bcrypt.hash and insertOne.              *)
(***************************************************************************)
\* registration requests followed
MaxRegs == 3

RegIds == 1..MaxRegs
Emails == {"a@example.com", "b@example.com"}

\* the bodies sent: an email (or none) and a password (or none)
RegBodies == [email : Emails \cup {""}, password : {"", "secret"}]

RegInit ==
    /\ now = Now0
    /\ mongoUri \in BOOLEAN
    /\ cachedClient = "null"
    /\ agenda = "undefined"
    /\ agendaInitialized = FALSE
    /\ slowAwaits = 0
    /\ pc = "serving"
    /\ RequestIdle
    /\ MonitorIdle
    /\ ConnIdle
    /\ MailIdle
    /\ agendas = <<>>
    /\ inits = <<>>
    /\ users \in {<<>>, <<[email |-> "a@example.com"]>>}
    /\ regs = <<>>

\* what registerUser never writes
regFrame == <<clockVars, pc, mongoUri, serverVars, requestVars, monitorVars, connVars,
              mailVars, initVars>>

RegAt(i, p) == regs' = [regs EXCEPT ![i].pc = p]
RegAnswers(i, status, error) ==
    regs' = [regs EXCEPT ![i].pc = "done", ![i].status = status, ![i].error = error]

\* usersCollection.findOne({ email })
findOne(email) == \E k \in 1..Len(users) : users[k].email = email

\* a request arrives: 400 without email or password, 503 without
\* MONGODB_URI, else new MongoClient(MONGODB_URI) and await client.connect()
RegArrives ==
    /\ Len(regs) < MaxRegs
    /\ \E body \in RegBodies :
        LET r == [pc |-> "connect", email |-> body.email, status |-> 0, error |-> ""]
        IN
        regs' = Append(regs,
            IF falsy(body.email) \/ falsy(body.password)
            THEN [r EXCEPT !.pc = "done", !.status = 400,
                           !.error = "Email and password are required"]
            ELSE IF ~mongoUri
            THEN [r EXCEPT !.pc = "done", !.status = 503,
                           !.error = "Database service is not available"]
            ELSE r)
    /\ UNCHANGED <<users, regFrame>>

\* await client.connect() settles; a rejection goes to the catch: 500
RegConnect ==
    /\ \E i \in DOMAIN regs, connectOk \in BOOLEAN :
        /\ regs[i].pc = "connect"
        /\ IF connectOk THEN RegAt(i, "find")
           ELSE RegAnswers(i, 500, "Failed to register user")
    /\ UNCHANGED <<users, regFrame>>

\* const existingUser = await usersCollection.findOne({ email });
\* if (existingUser) return 400 'User already exists'
RegFindOne ==
    /\ \E i \in DOMAIN regs :
        /\ regs[i].pc = "find"
        /\ IF findOne(regs[i].email)
           THEN RegAnswers(i, 400, "User already exists")
           ELSE RegAt(i, "hash")
    /\ UNCHANGED <<users, regFrame>>

\* await bcrypt.hash(password, 10)
RegHash ==
    /\ \E i \in DOMAIN regs :
        /\ regs[i].pc = "hash"
        /\ RegAt(i, "insert")
    /\ UNCHANGED <<users, regFrame>>

\* await usersCollection.insertOne({...}): 201, or the catch: 500
RegInsert ==
    /\ \E i \in DOMAIN regs, insertOk \in BOOLEAN :
        /\ regs[i].pc = "insert"
        /\ IF insertOk
           THEN /\ users' = Append(users, [email |-> regs[i].email])
                /\ RegAnswers(i, 201, "")
           ELSE /\ RegAnswers(i, 500, "Failed to register user")
                /\ UNCHANGED users
    /\ UNCHANGED regFrame

RegNext ==
    \/ RegArrives
    \/ RegConnect
    \/ RegFindOne
    \/ RegHash
    \/ RegInsert

RegSpec == RegInit /\ [][RegNext]_vars

\* C30: after any interleaving of POST /api/register requests the users
\* collection holds at most one user per email: a registration for an email
\* that is registered, or being registered by another request, inserts
\* nothing.
C30_OneUserPerEmail ==
    \A j, k \in 1..Len(users) : j # k => users[j].email # users[k].email

====
